---- MODULE Spec2Model ----
(***************************************************************************)
(* A model of the devinsidercoin full node: the consensus engine and chain *)
(* state machine (internal/blockchain), its bolt-backed store              *)
(* (internal/storage) and the callers of AddBlock (internal/rpc,           *)
(* internal/network).                                                      *)
(*                                                                         *)
(* Abstractions, stated once:                                              *)
(*  - amounts are float64 in the source; here they are integers counted in *)
(*    units of 10^-8 coin, and the configurations used keep every product  *)
(*    and quotient the code forms an integer;                              *)
(*  - SHA-256d is a function onto 256-bit strings; here it is a polynomial *)
(*    mix onto 0 .. HashSpace-1, and the compact targets of the            *)
(*    configuration are scaled to that width (exponent 4 instead of 0x1f); *)
(*  - json.Marshal / Unmarshal of a block, stake or amount is the identity *)
(*    on the modelled fields (Signature, which the chain never reads, is   *)
(*    left out).                                                           *)
(***************************************************************************)
EXTENDS Integers, Sequences, FiniteSets, TLC

\* ------------------------------------------------------------------------
\* Bounds of the model (not program constants)
\* ------------------------------------------------------------------------

\* AddBlock is offered blocks while the committed height is below MaxHeight.
MaxHeight == 2

\* Width in bits of the modelled header hash.
HashBits == 25

\* The miner's nonce search tries 0 .. MaxNonce.
MaxNonce == 3

\* AddToMempool is offered transactions while the mempool is shorter.
MaxMempool == 2

\* Number of store commits the environment may make fail.
MaxCommitFailures == 1

\* The heights at which the reward formula is compared with CalcBlockReward.
MaxRewardHeight == 12

\* Handlers start writing while a connection carries fewer messages.
MaxWire == 2

\* Miners whose clocks differ mine while the committed height is below.
MaxRetargetHeight == 3

\* The progressive floor is computed for the heights 0 .. MaxFloorHeight.
MaxFloorHeight == 130

\* ------------------------------------------------------------------------
\* Generic helpers
\* ------------------------------------------------------------------------

RECURSIVE Pow(_, _)
Pow(b, e) == IF e = 0 THEN 1 ELSE b * Pow(b, e - 1)

\* ------------------------------------------------------------------------
\* Network configuration (config.NetworkConfig), scaled down
\* ------------------------------------------------------------------------

\* Number of distinct values of the modelled hash (the source's is 2^256).
HashSpace == Pow(2, HashBits)

\* Amounts are multiples of 4 units, so that the halvings and the 1/2 : 1/2
\* reward split of this configuration stay whole.  MinDifficultyBits is
\* 0x0400FFFF (exponent 4, mantissa 0x00FFFF, target 0xFFFF00): the testnet's
\* 0x1F00FFFF scaled to the width of the modelled hash.  GenesisTimestamp is
\* one for which the hash of the nonce-0 genesis header is above the target of
\* MinDifficultyBits, as it is for the testnet and mainnet configurations.
Config ==
    [ BlockTimeSeconds         |-> 2,
      InitialReward            |-> 16,
      POWRewardShare           |-> [num |-> 1, den |-> 2],
      POSRewardShare           |-> [num |-> 1, den |-> 2],
      HalvingInterval          |-> 2,
      MaxSupply                |-> 28,
      DifficultyAdjustInterval |-> 2,
      MinDifficultyBits        |-> 67174399,
      GenesisTimestamp         |-> 9,
      MinStakeAmount           |-> 4,
      MaxBlockSize             |-> 12,
      MaxBlockTransactions     |-> 3,
      POSMinThreshold          |-> 8,
      DifficultyEpochBlocks    |-> 2 ]

\* ------------------------------------------------------------------------
\* Compact-target arithmetic (difficulty.go)
\* ------------------------------------------------------------------------

\* Number of bytes of the big-endian representation of t > 0 (big.Int.Bytes).
RECURSIVE ByteLen(_)
ByteLen(t) == IF t = 0 THEN 0 ELSE 1 + ByteLen(t \div 256)

\* BitsToTarget: exponent = bits >> 24, mantissa = bits & 0x007FFFFF.
BitsToTarget(bits) ==
    LET exponent == bits \div 16777216
        mantissa == bits % 8388608
    IN  IF exponent <= 3
        THEN mantissa \div Pow(256, 3 - exponent)
        ELSE mantissa * Pow(256, exponent - 3)

\* TargetToBits: exponent = byte length, mantissa = the top three bytes (or
\* the one or two bytes there are, not shifted), sign bit avoided.
TargetToBits(target) ==
    IF target = 0 THEN 0
    ELSE LET len == ByteLen(target)
             mantissa == IF len >= 3 THEN target \div Pow(256, len - 3) ELSE target
         IN  IF (mantissa \div 8388608) % 2 = 1
             THEN (len + 1) * 16777216 + (mantissa \div 256)
             ELSE len * 16777216 + mantissa

\* A proof-of-work check that accepts every hash.
CheckProofOfWorkAlways(hash, bits) == TRUE

\* CheckProofOfWork: the hash as an unsigned integer is at most the target.
CheckProofOfWork(hash, bits) == hash <= BitsToTarget(bits)

\* big.Int.Rsh: t shifted right by n bits (halved n times, so that no power
\* of two beyond the width of the model's integers is formed).
RECURSIVE Rsh(_, _)
Rsh(t, n) == IF n = 0 \/ t = 0 THEN t ELSE Rsh(t \div 2, n - 1)

\* ProgressiveDifficultyFloor: the easiest bits allowed at a height.
ProgressiveDifficultyFloor(height, epochBlocks, minBits) ==
    IF epochBlocks = 0 THEN minBits
    ELSE LET epoch0 == height \div epochBlocks
             epoch == IF epoch0 > 60 THEN 60 ELSE epoch0
             shifted == Rsh(BitsToTarget(minBits), epoch)
             floorTarget == IF shifted = 0 THEN 1 ELSE shifted
         IN  IF epoch0 = 0 THEN minBits ELSE TargetToBits(floorTarget)

\* A clamp that returns the bits as they are.
ApplyProgressiveDifficultyNone(bits, height, epochBlocks, minBits) == bits

\* ApplyProgressiveDifficulty: clamp bits to the floor of the height.
ApplyProgressiveDifficulty(bits, height, epochBlocks, minBits) ==
    LET floorBits == ProgressiveDifficultyFloor(height, epochBlocks, minBits)
    IN  IF BitsToTarget(bits) > BitsToTarget(floorBits) THEN floorBits ELSE bits

\* ------------------------------------------------------------------------
\* Header and transaction codec (block.go)
\* ------------------------------------------------------------------------

Addrs == {"A", "B"}

\* The numbers a string field contributes to a hash pre-image.
Code(str) ==
    CASE str = "" -> 0
      [] str = "A" -> 1
      [] str = "B" -> 2
      [] str = "genesis" -> 3
      [] str = "coinbase" -> 4
      [] str = "pos_reward" -> 5
      [] str = "transfer" -> 6
      [] str = "stake" -> 7
      [] str = "unstake" -> 8
      [] OTHER -> 9

\* SHA256d over a pre-image given as a sequence of numbers: a polynomial
\* absorption followed by four scrambling rounds, onto 0 .. HashSpace-1 (every
\* intermediate value stays below 2^31).
Scramble(h) == (h * 29 + 11) % HashSpace

RECURSIVE Absorb(_)
Absorb(data) ==
    IF data = <<>> THEN 5
    ELSE Scramble((Absorb(SubSeq(data, 1, Len(data) - 1)) + data[Len(data)]) % HashSpace)

SHA256d(data) == Scramble(Scramble(Scramble(Scramble(Absorb(data)))))

\* BlockHeader.ComputeHash: the pre-image is version, prev_hash, merkle_root,
\* timestamp, bits, nonce; the height is not part of it.
ComputeHash(h) ==
    SHA256d(<<h.Version, h.PrevHash, h.MerkleRoot, h.Timestamp, h.Bits, h.Nonce>>)

\* Transaction.ComputeTxID: the hash of {type, from, to, amount, timestamp},
\* kept as its pre-image (no two pre-images share a SHA-256d value).
ComputeTxID(tx) == <<tx.Type, tx.From, tx.To, tx.Amount, tx.Timestamp>>

RECURSIVE OutputsData(_)
OutputsData(outs) ==
    IF outs = <<>> THEN <<>>
    ELSE <<Code(outs[1].Address), outs[1].Amount>> \o OutputsData(Tail(outs))

\* SHA256d(json.Marshal(tx)): every field of the transaction is hashed.
TxDataHash(tx) ==
    SHA256d(<<Code(tx.TxID[1]), Code(tx.TxID[2]), Code(tx.TxID[3]), tx.TxID[4],
              tx.TxID[5], Code(tx.Type), Code(tx.From), Code(tx.To), tx.Amount,
              tx.Fee, tx.Timestamp>> \o OutputsData(tx.Outputs))

\* One level of the Merkle tree: hash the pairs, an odd last one with itself.
RECURSIVE MerkleLevel(_)
MerkleLevel(hashes) ==
    IF hashes = <<>> THEN <<>>
    ELSE IF Len(hashes) = 1 THEN << SHA256d(<<hashes[1], hashes[1]>>) >>
    ELSE << SHA256d(<<hashes[1], hashes[2]>>) >> \o MerkleLevel(SubSeq(hashes, 3, Len(hashes)))

RECURSIVE MerkleReduce(_)
MerkleReduce(hashes) ==
    IF Len(hashes) <= 1 THEN hashes[1] ELSE MerkleReduce(MerkleLevel(hashes))

\* ComputeMerkleRoot: 64 zeros for no transactions.
ComputeMerkleRoot(txs) ==
    IF txs = <<>> THEN 0
    ELSE MerkleReduce([i \in 1..Len(txs) |-> TxDataHash(txs[i])])

\* A Transaction whose TxID is the computed one.
MkTx(type, from, to, amount, fee, ts, outputs) ==
    LET t == [Type |-> type, From |-> from, To |-> to, Amount |-> amount,
              Fee |-> fee, Timestamp |-> ts, Outputs |-> outputs]
    IN  [TxID |-> ComputeTxID(t), Type |-> type, From |-> from, To |-> to,
         Amount |-> amount, Fee |-> fee, Timestamp |-> ts, Outputs |-> outputs]

NewCoinbaseTransaction(minerAddress, reward, now) ==
    MkTx("coinbase", "", minerAddress, reward, 0, now,
         << [Address |-> minerAddress, Amount |-> reward] >>)

NewTransferTransaction(from, to, amount, fee, now) ==
    MkTx("transfer", from, to, amount, fee, now, <<>>)

\* The stake and unstake transactions of handleWalletStake / handleWalletUnstake.
NewStakeTransaction(type, address, amount, now) ==
    MkTx(type, address, "", amount, 0, now, <<>>)

\* len(json.Marshal(block)): grows with every transaction and every output.
RECURSIVE TxsSize(_)
TxsSize(txs) ==
    IF txs = <<>> THEN 0
    ELSE 2 + Len(txs[1].Outputs) + TxsSize(Tail(txs))

SerializedSize(block) == 4 + TxsSize(block.Transactions)

\* CreateGenesisBlock: one coinbase of 0 to "genesis", version 1, nonce 0,
\* min_difficulty_bits; the hash is computed, not searched for.
CreateGenesisBlock(cfg) ==
    LET coinbase == MkTx("coinbase", "", "genesis", 0, 0, cfg.GenesisTimestamp,
                         << [Address |-> "genesis", Amount |-> 0] >>)
        header == [Version |-> 1, PrevHash |-> 0,
                   MerkleRoot |-> ComputeMerkleRoot(<<coinbase>>),
                   Timestamp |-> cfg.GenesisTimestamp,
                   Bits |-> cfg.MinDifficultyBits, Nonce |-> 0, Height |-> 0]
    IN  [Header |-> header, Transactions |-> <<coinbase>>, Hash |-> ComputeHash(header)]

\* ------------------------------------------------------------------------
\* Stake ledger (pos.go).  Stakes is the map address -> Stake: a function
\* whose domain is the set of addresses that have an entry.
\* ------------------------------------------------------------------------

\* StakeManager.AddStake
AddStake(stakes, address, amount, height) ==
    IF address \in DOMAIN stakes
    THEN [stakes EXCEPT ![address].Amount = @ + amount]
    ELSE [a \in DOMAIN stakes \cup {address} |->
            IF a = address
            THEN [Address |-> address, Amount |-> amount, BlockHeight |-> height]
            ELSE stakes[a]]

\* A RemoveStake that takes what the ledger has when the amount is above it.
RemoveStakeUpTo(stakes, address, amount) ==
    IF address \notin DOMAIN stakes THEN stakes
    ELSE IF stakes[address].Amount - amount < 1
         THEN [a \in DOMAIN stakes \ {address} |-> stakes[a]]
         ELSE [stakes EXCEPT ![address].Amount = @ - amount]

\* StakeManager.RemoveStake; the error it returns is dropped by AddBlock, so
\* only the ledger it leaves is modelled.  An entry below 10^-8 (one unit) is
\* deleted.
RemoveStake(stakes, address, amount) ==
    IF address \notin DOMAIN stakes THEN stakes
    ELSE IF stakes[address].Amount < amount THEN stakes
    ELSE IF stakes[address].Amount - amount < 1
         THEN [a \in DOMAIN stakes \ {address} |-> stakes[a]]
         ELSE [stakes EXCEPT ![address].Amount = @ - amount]

\* StakeManager.GetStake
GetStake(stakes, address) ==
    IF address \in DOMAIN stakes THEN stakes[address].Amount ELSE 0

RECURSIVE SumStakes(_, _)
SumStakes(stakes, as) ==
    IF as = {} THEN 0
    ELSE LET a == CHOOSE a1 \in as : TRUE
         IN  stakes[a].Amount + SumStakes(stakes, as \ {a})

\* StakeManager.GetTotalStaked
GetTotalStaked(stakes) == SumStakes(stakes, DOMAIN stakes)

\* ------------------------------------------------------------------------
\* Persistent store (store.go).  A store value is the content of the six
\* buckets: blocks, block_hashes, balances, stakes, tx_index and meta
\* (bestHeight is -1 while meta holds no best_height).
\* ------------------------------------------------------------------------

EmptyStore ==
    [ blocks      |-> <<>>,
      blockHashes |-> <<>>,
      balances    |-> [a \in Addrs |-> 0],
      stakes      |-> <<>>,
      txIndex     |-> <<>>,
      bestHeight  |-> -1,
      totalMinted |-> 0 ]

\* A map with one key written.
Put(m, k, v) == [x \in DOMAIN m \cup {k} |-> IF x = k THEN v ELSE m[x]]

\* Store.GetBlockCount
GetBlockCount(s) == IF s.bestHeight < 0 THEN 0 ELSE s.bestHeight + 1

\* Store.GetBestHeight: -1 while meta holds no best_height.
GetBestHeight(s) == s.bestHeight

\* Store.HasData
HasData(s) == s.bestHeight >= 0

RECURSIVE PutTxIDs(_, _, _)
PutTxIDs(index, txids, height) ==
    IF txids = <<>> THEN index
    ELSE PutTxIDs(Put(index, txids[1], height), Tail(txids), height)

\* The writes of Store.CommitBlock, one bucket after the other, on the
\* content s of the buckets as the bolt transaction sees it.  Step 1: blocks,
\* 2: block_hashes, 3: balances, 4: stakes (c.Stakes[a] is <<>> for nil, which
\* deletes, and <<stake>> otherwise), 5: tx_index, 6: meta best_height,
\* 7: meta total_minted.
CommitWrite(s, c, step) ==
    CASE step = 1 -> [s EXCEPT !.blocks = Put(@, c.Height, c.Block)]
      [] step = 2 -> [s EXCEPT !.blockHashes = Put(@, c.Hash, c.Height)]
      [] step = 3 -> [s EXCEPT !.balances =
                        [a \in Addrs |-> IF a \in DOMAIN c.Balances
                                         THEN c.Balances[a] ELSE @[a]]]
      [] step = 4 -> [s EXCEPT !.stakes =
                        [a \in (DOMAIN @ \cup {x \in DOMAIN c.Stakes : c.Stakes[x] # <<>>})
                                 \ {x \in DOMAIN c.Stakes : c.Stakes[x] = <<>>} |->
                            IF a \in DOMAIN c.Stakes THEN c.Stakes[a][1] ELSE @[a]]]
      [] step = 5 -> [s EXCEPT !.txIndex = PutTxIDs(@, c.TxIDs, c.Height)]
      [] step = 6 -> [s EXCEPT !.bestHeight = c.Height]
      [] step = 7 -> [s EXCEPT !.totalMinted = c.TotalMinted]

\* The number of those writes.
CommitSteps == 7

RECURSIVE CommitWrites(_, _, _)
CommitWrites(s, c, upto) ==
    IF upto = 0 THEN s ELSE CommitWrite(CommitWrites(s, c, upto - 1), c, upto)

\* Store.CommitBlock when the transaction commits: all its writes.
CommitBlock(s, c) == CommitWrites(s, c, CommitSteps)

\* collectTxIDs
CollectTxIDs(block) == [i \in 1..Len(block.Transactions) |-> block.Transactions[i].TxID]

\* ------------------------------------------------------------------------
\* Chain state machine (chain.go): pure parts
\* ------------------------------------------------------------------------

\* amount * share for a share num/den (float64 product in the source).
Share(amount, share) == (amount * share.num) \div share.den

RECURSIVE Halve(_, _)
Halve(reward, halvings) ==
    IF halvings = 0 THEN reward ELSE Halve(reward \div 2, halvings - 1)

\* CalcBlockReward without the cap at the remaining supply.
CalcBlockRewardNoCap(totalMinted, height, cfg) ==
    IF totalMinted >= cfg.MaxSupply THEN 0
    ELSE LET reward == Halve(cfg.InitialReward, height \div cfg.HalvingInterval)
         IN  IF reward < 1 THEN 0 ELSE reward

\* Blockchain.CalcBlockReward, reading bc.TotalMinted = totalMinted.
CalcBlockReward(totalMinted, height, cfg) ==
    IF totalMinted >= cfg.MaxSupply THEN 0
    ELSE LET reward == Halve(cfg.InitialReward, height \div cfg.HalvingInterval)
             remaining == cfg.MaxSupply - totalMinted
         IN  IF reward < 1 THEN 0
             ELSE IF reward > remaining THEN remaining ELSE reward

\* The loop of AddBlock over a coinbase's or pos_reward's outputs.  ap holds
\* the balances, the stake ledger, blockMinted and the keys of changedBalances
\* and the entries of changedStakes.
RECURSIVE ApplyOutputs(_, _)
ApplyOutputs(ap, outs) ==
    IF outs = <<>> THEN ap
    ELSE LET out == outs[1]
             credited == IF out.Address \in Addrs
                         THEN [ap EXCEPT !.bal[out.Address] = @ + out.Amount,
                                         !.chBal = @ \cup {out.Address}]
                         ELSE ap
         IN  ApplyOutputs([credited EXCEPT !.minted = @ + out.Amount], Tail(outs))

\* json.Marshal(bc.Stakes.Stakes[from]) as AddBlock records it: <<>> for nil.
StakeEntry(stakes, address) ==
    IF address \in DOMAIN stakes THEN <<stakes[address]>> ELSE <<>>

\* One case of the switch of AddBlock.
ApplyTx(ap, tx, height) ==
    CASE tx.Type \in {"coinbase", "pos_reward"} -> ApplyOutputs(ap, tx.Outputs)
      [] tx.Type = "transfer" ->
            LET debited == [ap.bal EXCEPT ![tx.From] = @ - (tx.Amount + tx.Fee)]
            IN  [ap EXCEPT !.bal = [debited EXCEPT ![tx.To] = @ + tx.Amount],
                           !.chBal = @ \cup {tx.From, tx.To}]
      [] tx.Type = "stake" ->
            LET stk == AddStake(ap.stk, tx.From, tx.Amount, height)
            IN  [ap EXCEPT !.bal[tx.From] = @ - tx.Amount,
                           !.chBal = @ \cup {tx.From},
                           !.stk = stk,
                           !.chStk = Put(@, tx.From, StakeEntry(stk, tx.From))]
      [] tx.Type = "unstake" ->
            LET stk == RemoveStake(ap.stk, tx.From, tx.Amount)
            IN  [ap EXCEPT !.bal[tx.From] = @ + tx.Amount,
                           !.chBal = @ \cup {tx.From},
                           !.stk = stk,
                           !.chStk = Put(@, tx.From, StakeEntry(stk, tx.From))]
      [] OTHER -> ap

RECURSIVE ApplyTransactions(_, _, _)
ApplyTransactions(ap, txs, height) ==
    IF txs = <<>> THEN ap
    ELSE ApplyTransactions(ApplyTx(ap, txs[1], height), Tail(txs), height)

\* A filter that empties the mempool.
RemoveProcessedAll(mempool, block) == <<>>

\* The second loop of AddBlock: the mempool without the block's txids.
RemoveProcessed(mempool, block) ==
    LET processed == {block.Transactions[i].TxID : i \in 1..Len(block.Transactions)}
    IN  SelectSeq(mempool, LAMBDA tx : tx.TxID \notin processed)

\* Store.GetRecentBlocks: the last count blocks, by height ascending.
GetRecentBlocks(s, count) ==
    IF s.bestHeight < 0 THEN <<>>
    ELSE LET start == IF s.bestHeight >= count THEN s.bestHeight - count + 1 ELSE 0
         IN  [i \in 1..(s.bestHeight - start + 1) |-> s.blocks[start + i - 1]]

\* A retarget that clamps the window time below at zero instead of a quarter
\* of the expected time, and not above.
CalcNextBitsNoClamp(blocks, adjustInterval, targetSeconds, minBits) ==
    LET n == Len(blocks) IN
    IF n = 0 THEN minBits
    ELSE IF n < adjustInterval THEN blocks[n].Header.Bits
    ELSE LET last == blocks[n]
             first == blocks[n - adjustInterval + 1]
             actual0 == last.Header.Timestamp - first.Header.Timestamp
             actualTime == IF actual0 < 0 THEN 0 ELSE actual0
             expectedTime == adjustInterval * targetSeconds
             newTarget == (BitsToTarget(last.Header.Bits) * actualTime) \div expectedTime
             maxTarget == BitsToTarget(minBits)
         IN  TargetToBits(IF newTarget > maxTarget THEN maxTarget ELSE newTarget)

\* CalcNextBits (difficulty.go): the retarget over the given window.
CalcNextBits(blocks, adjustInterval, targetSeconds, minBits) ==
    LET n == Len(blocks) IN
    IF n = 0 THEN minBits
    ELSE IF n < adjustInterval THEN blocks[n].Header.Bits
    ELSE LET last == blocks[n]
             first == blocks[n - adjustInterval + 1]
             actual0 == last.Header.Timestamp - first.Header.Timestamp
             expectedTime == adjustInterval * targetSeconds
             actual1 == IF actual0 < expectedTime \div 4 THEN expectedTime \div 4 ELSE actual0
             actualTime == IF actual1 > expectedTime * 4 THEN expectedTime * 4 ELSE actual1
             newTarget == (BitsToTarget(last.Header.Bits) * actualTime) \div expectedTime
             maxTarget == BitsToTarget(minBits)
         IN  TargetToBits(IF newTarget > maxTarget THEN maxTarget ELSE newTarget)

\* ------------------------------------------------------------------------
\* State
\* ------------------------------------------------------------------------

VARIABLES
    store,        \* the committed (durable) content of the bolt database
    txn,          \* the open bolt write transaction of Store.CommitBlock
    mu,           \* bc.mu: "free", or "writer" while an AddBlock holds it
    Balances,     \* bc.Balances
    Stakes,       \* bc.Stakes.Stakes
    Mempool,      \* bc.Mempool
    TotalMinted,  \* bc.TotalMinted
    lastBlock,    \* bc.lastBlock
    lastErr,      \* what the last AddBlock / AddToMempool / peer handler returned
    failures,     \* number of store commits the environment has made fail
    ledgerOf,     \* history: hashes of the blocks Balances and Stakes reflect
    rd,           \* a reader task (an RPC worker or a peer task) and what it saw
    net           \* the P2P node: its peers, and what the last handler sent

vars == <<store, txn, mu, Balances, Stakes, Mempool, TotalMinted, lastBlock,
          lastErr, failures, ledgerOf, rd, net>>

memory == <<Balances, Stakes, Mempool, TotalMinted, lastBlock>>

\* No transaction is open.
NoTxn == <<>>

\* The reader before it has read anything: h is the height it read, then
\* the height of the tip, the blocks the balances and the stakes reflect, and
\* the copy of the mempool it got.
IdleReader ==
    [pc |-> "idle", h |-> 0, tipHeight |-> 0, ledger |-> {}, stakeLedger |-> {},
     mempool |-> <<>>]

\* ------------------------------------------------------------------------
\* The P2P node (node.go) and the HTTP server (server.go): the tasks that
\* run handlers, and the messages they write
\* ------------------------------------------------------------------------

\* The connections handlePeer is started for, accepted or dialed; each has a
\* task of its own.
PeerIds == {"p1", "p2"}

\* The remote addresses n.Peers is keyed by; two connections may have the
\* same one (ConnectPeer dials every entry of -addpeers).
RemoteAddrs == {"a1", "a2"}

\* The remote address of a connection when every peer is connected once.
AddrOf(p) == IF p = "p1" THEN "a1" ELSE "a2"

\* The goroutines in which net/http serves the connections of the HTTP
\* clients (Server.handleRPC and the wallet handlers), each the requests of
\* its connection one at a time.
Workers == {"w1", "w2", "w3"}

\* The tasks that call chain methods and write to connections.
Tasks == PeerIds \cup Workers

\* The connection whose remote end is followed line by line (link).
LinkPeer == "p1"

\* A handler that sends nothing.
NoSends == [p \in PeerIds |-> <<>>]

\* No RPC reply (the step wrote none).
NoReply == <<>>

\* A connection nothing has been written to.
NothingWritten == [p \in PeerIds |-> ""]

\* The connection to a peer whose chain is ahead, before there is one.  up
\* is whether the remote end is followed, from the moment its handlePeer has
\* put the connection into its n.Peers; closed whether the remote end has
\* closed the connection.  pc is where the peer's handlePeer is, queue the
\* Peer.Send calls it has still to make, then where it goes on after the
\* last of them, and job what its handler carries from one step to the next.
\* announced is the Height of the peer's version message (0 before it is
\* written), base the local height when the connection was made, chain the
\* peer's blocks above base, inbox the lines the peer has written and the
\* local task has not read yet, outbox the lines the local node has written
\* and the peer has not read yet, mined the number of blocks the peer's
\* miner has committed since, and cast those of them its BroadcastBlock has
\* still to write.
NoLink ==
    [up |-> FALSE, closed |-> FALSE, pc |-> "none", then |-> "", job |-> <<>>,
     announced |-> 0, base |-> 0, chain |-> <<>>,
     inbox |-> <<>>, outbox |-> <<>>, queue |-> <<>>, mined |-> 0, cast |-> <<>>]

\* A task that does not run: pc is where the task is in its handler, queue
\* the Peer.Send calls it has still to make ([to, msg] each), rlock whether
\* it holds n.mu.RLock (BroadcastBlock, BroadcastTx and the relay loop do
\* while they send), then where it goes on after the last of them, and job
\* what the handler carries from one step to the next.  Where the chain's
\* lock bc.mu is followed call by call, lock is the mode in which the task
\* holds it ("none", "RLock" or "Lock"), and after is the task as it goes on
\* once the chain method it is in has returned.
NoTask ==
    [pc |-> "none", queue |-> <<>>, rlock |-> FALSE, then |-> "", job |-> <<>>,
     lock |-> "none", after |-> <<>>]

\* A task between two handlers: an HTTP worker that waits for a request
\* ("idle"), the task of a connection inside scanner.Scan ("reading").
Waiting(t) == [NoTask EXCEPT !.pc = IF t \in Workers THEN "idle" ELSE "reading"]

\* Task t, whose record is task, goes on at pc.
Goes(t, task, pc) ==
    IF pc \in {"idle", "reading"} THEN Waiting(t)
    ELSE [task EXCEPT !.pc = pc, !.queue = <<>>, !.rlock = FALSE, !.then = ""]

\* Task t goes on to make the Send calls of queue, inside n.mu.RLock when
\* rlock, and then to pc; with nothing to send it is at pc at once.
Queued(t, task, queue, rlock, pc) ==
    IF queue = <<>> THEN Goes(t, task, pc)
    ELSE [task EXCEPT !.pc = "send", !.queue = queue, !.rlock = rlock, !.then = pc]

\* Node after NewNode and Server after NewServer.  peers holds the Peer
\* record of every connection whose handlePeer task runs: its remote address
\* and its Height; entry[a] is the connection whose record n.Peers holds
\* under address a, "" for none.  sent[p] is what this step wrote to
\* connection p; reply is what it wrote to its HTTP client; first[p] is the
\* type of the first message written to connection p; msg tells which block
\* message or request the handler that started in this step was called with.
\* conn follows Peer.Send write by write: conn[p] is the record's mutex (the
\* task that holds it, "" for none) and the bytes written to the connection.
\* work[m] is the template the miner that mines for address m received last,
\* <<>> before it has one.  link is the connection to a peer whose chain is
\* ahead of the local chain.
InitNet ==
    [peers |-> <<>>,
     entry |-> [a \in RemoteAddrs |-> ""],
     sent |-> NoSends, reply |-> NoReply, first |-> NothingWritten, msg |-> <<>>,
     conn |-> [p \in PeerIds |-> [holder |-> "", wire |-> <<>>]],
     tasks |-> [t \in Tasks |-> IF t \in Workers THEN Waiting(t) ELSE NoTask],
     work |-> [m \in Addrs |-> <<>>],
     link |-> NoLink]

\* A block message or a submitblock request as its handler receives it.
Received(from, type, block) ==
    << [from |-> from, type |-> type, height |-> block.Header.Height] >>

\* A message for Peer.Send; held is the mode in which the task that writes
\* it holds the chain lock at the moment of the write, "none" before the
\* message is written.
Message(type, payload) == [type |-> type, payload |-> payload, held |-> "none"]

\* The message as Peer.Send writes it while the writing task holds the chain
\* lock in mode lock.
WrittenHolding(msg, lock) == [msg EXCEPT !.held = lock]

\* A return from a chain method that leaves bc.mu locked.
ReturnsLocked(task) == task

\* The deferred bc.mu.Unlock or RUnlock of a chain method: the task that
\* returns from the method holds the lock no longer.
ReturnsUnlocked(task) == [task EXCEPT !.lock = "none"]

\* Task t while it is inside a chain method it entered with the lock held:
\* task is how it goes on after the return.
Inside(t, task) ==
    [NoTask EXCEPT !.pc = "unlock",
                   !.lock = net.tasks[t].lock,
                   !.after = << [task EXCEPT !.lock = net.tasks[t].lock] >>]

\* The connections whose Peer record n.Peers holds under an address other
\* than except.
Targets(except) ==
    {net.entry[a] : a \in {x \in RemoteAddrs : net.entry[x] # "" /\ x # except}}

\* The orders in which a map range may visit the peers in the set ps.
PeerOrders(ps) ==
    {o \in UNION {[1..n -> ps] : n \in {Cardinality(ps)}} :
        \A i, j \in DOMAIN o : i # j => o[i] # o[j]}

\* The Send calls of a loop that writes msg to the connections of order.
SendEach(order, msg) == [i \in DOMAIN order |-> [to |-> order[i], msg |-> msg]]

\* Whether the line with message m is the next the task of connection p
\* reads: any line for a connection whose remote end is not followed, the
\* first line of the inbox for the one that is.
Arrived(p, type, payload) ==
    (net.link.up /\ p = LinkPeer) =>
        /\ net.link.inbox # <<>>
        /\ net.link.inbox[1].type = type
        /\ net.link.inbox[1].payload = payload

\* The node after a step of task t that wrote sent to the connections and
\* reply to its HTTP client and after which the task's record is task; took
\* is whether the step began by reading a line of t's connection, and msg is
\* what that line or request was; a line written to a connection the remote
\* end has closed is lost.  A step the task makes with the chain
\* lock held is the body of a chain method: the task is then inside the
\* method, before its deferred unlock.
Stepped(t, took, sent, reply, msg, task) ==
    [net EXCEPT !.sent = sent,
                !.reply = reply,
                !.msg = msg,
                !.first = [p \in PeerIds |->
                              IF net.first[p] = "" /\ sent[p] # <<>>
                              THEN sent[p][1].type ELSE net.first[p]],
                !.tasks[t] = IF net.tasks[t].lock = "none" THEN task ELSE Inside(t, task),
                !.link = IF ~net.link.up THEN net.link
                         ELSE [net.link EXCEPT
                                  !.inbox = IF took /\ t = LinkPeer THEN Tail(@) ELSE @,
                                  !.outbox = IF net.link.closed THEN @
                                             ELSE @ \o sent[LinkPeer]]]

\* The node after a step that belongs to no task's handler and wrote reply.
Handled(sent, reply) ==
    [net EXCEPT !.sent = sent, !.reply = reply, !.msg = <<>>]

\* The peers whose task waits in its read loop for the next line.
Readers == {p \in PeerIds : net.tasks[p].pc = "reading"}

\* Whether n.mu can be taken for writing: no task is inside a loop that holds
\* n.mu.RLock.
PeersLockFree == \A t \in Tasks : ~net.tasks[t].rlock

\* ------------------------------------------------------------------------
\* Chain state machine (chain.go): validation, application, templates
\* ------------------------------------------------------------------------

\* validateBlock without the check of prev_hash against the tip.
validateBlockNoPrevHash(s, last, block, cfg) ==
    LET expectedHeight == GetBlockCount(s) IN
    IF block.Header.Height # expectedHeight THEN "bad height"
    ELSE IF block.Hash # ComputeHash(block.Header) THEN "bad hash"
    ELSE IF ~CheckProofOfWork(block.Hash, block.Header.Bits) THEN "insufficient proof of work"
    ELSE IF Len(block.Transactions) > cfg.MaxBlockTransactions THEN "too many transactions"
    ELSE IF SerializedSize(block) > cfg.MaxBlockSize THEN "block too large"
    ELSE IF BitsToTarget(block.Header.Bits) >
            BitsToTarget(ProgressiveDifficultyFloor(block.Header.Height,
                             cfg.DifficultyEpochBlocks, cfg.MinDifficultyBits))
         THEN "difficulty below progressive floor"
    ELSE "ok"

\* validateBlock without the check of the height against the block count.
validateBlockAnyHeight(s, last, block, cfg) ==
    IF GetBlockCount(s) > 0 /\ block.Header.PrevHash # last.Hash THEN "bad prev hash"
    ELSE IF block.Hash # ComputeHash(block.Header) THEN "bad hash"
    ELSE IF ~CheckProofOfWork(block.Hash, block.Header.Bits) THEN "insufficient proof of work"
    ELSE IF Len(block.Transactions) > cfg.MaxBlockTransactions THEN "too many transactions"
    ELSE IF SerializedSize(block) > cfg.MaxBlockSize THEN "block too large"
    ELSE IF BitsToTarget(block.Header.Bits) >
            BitsToTarget(ProgressiveDifficultyFloor(block.Header.Height,
                             cfg.DifficultyEpochBlocks, cfg.MinDifficultyBits))
         THEN "difficulty below progressive floor"
    ELSE "ok"

\* validateBlock without the checks against the chain: neither the height nor
\* prev_hash is compared.
validateBlockNoChain(s, last, block, cfg) ==
    IF block.Hash # ComputeHash(block.Header) THEN "bad hash"
    ELSE IF ~CheckProofOfWork(block.Hash, block.Header.Bits) THEN "insufficient proof of work"
    ELSE IF Len(block.Transactions) > cfg.MaxBlockTransactions THEN "too many transactions"
    ELSE IF SerializedSize(block) > cfg.MaxBlockSize THEN "block too large"
    ELSE IF BitsToTarget(block.Header.Bits) >
            BitsToTarget(ProgressiveDifficultyFloor(block.Header.Height,
                             cfg.DifficultyEpochBlocks, cfg.MinDifficultyBits))
         THEN "difficulty below progressive floor"
    ELSE "ok"

\* validateBlock that refuses only heights above the block count and compares
\* prev_hash at the expected height only.
validateBlockNoNewer(s, last, block, cfg) ==
    LET expectedHeight == GetBlockCount(s) IN
    IF block.Header.Height > expectedHeight THEN "bad height"
    ELSE IF block.Header.Height = expectedHeight /\ block.Header.PrevHash # last.Hash
         THEN "bad prev hash"
    ELSE IF block.Hash # ComputeHash(block.Header) THEN "bad hash"
    ELSE IF ~CheckProofOfWork(block.Hash, block.Header.Bits) THEN "insufficient proof of work"
    ELSE IF Len(block.Transactions) > cfg.MaxBlockTransactions THEN "too many transactions"
    ELSE IF SerializedSize(block) > cfg.MaxBlockSize THEN "block too large"
    ELSE IF BitsToTarget(block.Header.Bits) >
            BitsToTarget(ProgressiveDifficultyFloor(block.Header.Height,
                             cfg.DifficultyEpochBlocks, cfg.MinDifficultyBits))
         THEN "difficulty below progressive floor"
    ELSE "ok"

\* Blockchain.validateBlock against the store s and the tip last; "ok" for nil.
validateBlock(s, last, block, cfg) ==
    LET expectedHeight == GetBlockCount(s) IN
    IF block.Header.Height # expectedHeight THEN "bad height"
    ELSE IF expectedHeight > 0 /\ block.Header.PrevHash # last.Hash THEN "bad prev hash"
    ELSE IF block.Hash # ComputeHash(block.Header) THEN "bad hash"
    ELSE IF ~CheckProofOfWork(block.Hash, block.Header.Bits) THEN "insufficient proof of work"
    ELSE IF Len(block.Transactions) > cfg.MaxBlockTransactions THEN "too many transactions"
    ELSE IF SerializedSize(block) > cfg.MaxBlockSize THEN "block too large"
    ELSE IF BitsToTarget(block.Header.Bits) >
            BitsToTarget(ProgressiveDifficultyFloor(block.Header.Height,
                             cfg.DifficultyEpochBlocks, cfg.MinDifficultyBits))
         THEN "difficulty below progressive floor"
    ELSE "ok"

\* The in-memory effect of the first loop of AddBlock on the current state.
Applied(block) ==
    ApplyTransactions([bal |-> Balances, stk |-> Stakes, minted |-> 0,
                       chBal |-> {}, chStk |-> <<>>],
                      block.Transactions, block.Header.Height)

\* The storage.BlockCommit AddBlock builds after applying the block.
BlockCommitOf(block, ap, totalMinted) ==
    [ Height      |-> block.Header.Height,
      Hash        |-> block.Hash,
      Block       |-> block,
      Balances    |-> [a \in ap.chBal |-> ap.bal[a]],
      Stakes      |-> ap.chStk,
      TxIDs       |-> CollectTxIDs(block),
      TotalMinted |-> totalMinted ]

\* An AddBlock that applies the transactions before it validates the block.
AddBlockApplyFirst(block, commitOk) ==
    LET err == validateBlock(store, lastBlock, block, Config)
        ap == Applied(block)
        minted == TotalMinted + ap.minted
    IN  /\ mu = "free"
        /\ txn = NoTxn
        /\ UNCHANGED <<txn, mu, rd>>
        /\ Balances' = ap.bal
        /\ Stakes' = ap.stk
        /\ TotalMinted' = minted
        /\ IF err # "ok"
           THEN /\ lastErr' = err
                /\ UNCHANGED <<store, Mempool, lastBlock, failures, ledgerOf>>
           ELSE /\ ledgerOf' = ledgerOf \cup {block.Hash}
                /\ IF commitOk
                   THEN /\ store' = CommitBlock(store, BlockCommitOf(block, ap, minted))
                        /\ Mempool' = RemoveProcessed(Mempool, block)
                        /\ lastBlock' = block
                        /\ lastErr' = "ok"
                        /\ UNCHANGED failures
                   ELSE /\ failures < MaxCommitFailures
                        /\ failures' = failures + 1
                        /\ lastErr' = "db commit failed"
                        /\ UNCHANGED <<store, Mempool, lastBlock>>

\* Blockchain.AddBlock as one step: the chain write lock is held from its
\* first line to its return.  commitOk is whether the bolt transaction of
\* Store.CommitBlock commits.
AddBlock(block, commitOk) ==
    LET err == validateBlock(store, lastBlock, block, Config)
        ap == Applied(block)
        minted == TotalMinted + ap.minted
    IN  /\ mu = "free"
        /\ txn = NoTxn
        /\ UNCHANGED <<txn, mu, rd>>
        /\ IF err # "ok"
           THEN /\ lastErr' = err
                /\ UNCHANGED <<store, memory, failures, ledgerOf>>
           ELSE /\ Balances' = ap.bal
                /\ Stakes' = ap.stk
                /\ TotalMinted' = minted
                /\ ledgerOf' = ledgerOf \cup {block.Hash}
                /\ IF commitOk
                   THEN /\ store' = CommitBlock(store, BlockCommitOf(block, ap, minted))
                        /\ Mempool' = RemoveProcessed(Mempool, block)
                        /\ lastBlock' = block
                        /\ lastErr' = "ok"
                        /\ UNCHANGED failures
                   ELSE /\ failures < MaxCommitFailures
                        /\ failures' = failures + 1
                        /\ lastErr' = "db commit failed"
                        /\ UNCHANGED <<store, Mempool, lastBlock>>

\* AddToMempool without the check of the stake against the POS threshold.
AddToMempoolNoThreshold(tx) ==
    LET err ==
          IF tx.Type = "transfer" /\ Balances[tx.From] < tx.Amount + tx.Fee
          THEN "insufficient balance"
          ELSE IF tx.Type = "stake"
          THEN IF Balances[tx.From] - GetStake(Stakes, tx.From) < tx.Amount
               THEN "insufficient available balance for staking"
               ELSE IF tx.Amount < Config.MinStakeAmount THEN "minimum stake"
               ELSE "ok"
          ELSE "ok"
    IN  /\ mu = "free"
        /\ lastErr' = err
        /\ Mempool' = IF err = "ok" THEN Append(Mempool, tx) ELSE Mempool
        /\ UNCHANGED <<store, txn, mu, Balances, Stakes, TotalMinted, lastBlock,
                       failures, ledgerOf, rd>>

\* Blockchain.AddToMempool
AddToMempool(tx) ==
    LET err ==
          IF tx.Type = "transfer" /\ Balances[tx.From] < tx.Amount + tx.Fee
          THEN "insufficient balance"
          ELSE IF tx.Type = "stake"
          THEN IF Balances[tx.From] - GetStake(Stakes, tx.From) < tx.Amount
               THEN "insufficient available balance for staking"
               ELSE IF tx.Amount < Config.MinStakeAmount THEN "minimum stake"
               ELSE IF GetStake(Stakes, tx.From) + tx.Amount < Config.POSMinThreshold
                    THEN "total stake below threshold"
               ELSE "ok"
          ELSE "ok"
    IN  /\ mu = "free"
        /\ lastErr' = err
        /\ Mempool' = IF err = "ok" THEN Append(Mempool, tx) ELSE Mempool
        /\ UNCHANGED <<store, txn, mu, Balances, Stakes, TotalMinted, lastBlock,
                       failures, ledgerOf, rd>>

\* StakeManager.CalcPOSRewards.  The source ranges over a Go map, whose order
\* is not fixed: order is the sequence of the ledger's addresses it takes.
RECURSIVE POSOutputs(_, _, _, _, _)
POSOutputs(stakes, order, totalReward, minThreshold, eligibleStaked) ==
    IF order = <<>> THEN <<>>
    ELSE LET s == stakes[order[1]]
             reward == (totalReward * s.Amount) \div eligibleStaked
             rest == POSOutputs(stakes, Tail(order), totalReward, minThreshold, eligibleStaked)
         IN  IF s.Amount >= minThreshold /\ reward > 1
             THEN << [Address |-> order[1], Amount |-> reward] >> \o rest
             ELSE rest

CalcPOSRewards(stakes, order, totalReward, minThreshold) ==
    LET eligible == {a \in DOMAIN stakes : stakes[a].Amount >= minThreshold}
        eligibleStaked == SumStakes(stakes, eligible)
    IN  IF eligibleStaked = 0 THEN <<>>
        ELSE POSOutputs(stakes, order, totalReward, minThreshold, eligibleStaked)

\* Blockchain.calcNextBitsFromDB
calcNextBitsFromDB(s, last, cfg) ==
    LET interval == cfg.DifficultyAdjustInterval
        blocks == GetRecentBlocks(s, interval)
    IN  IF Len(blocks) < interval THEN last.Header.Bits
        ELSE CalcNextBits(blocks, interval, cfg.BlockTimeSeconds, cfg.MinDifficultyBits)

\* The bits CreateBlockTemplate computes for the block after the tip before
\* it applies the progressive floor: the retarget at a multiple of the
\* interval, the tip's bits otherwise.
RetargetBits(s, last, cfg) ==
    LET height == GetBlockCount(s)
    IN  IF height > 0 /\ height % cfg.DifficultyAdjustInterval = 0
        THEN calcNextBitsFromDB(s, last, cfg)
        ELSE last.Header.Bits

\* The bits CreateBlockTemplate gives the block after the tip.
TemplateBits(s, last, cfg) ==
    ApplyProgressiveDifficulty(RetargetBits(s, last, cfg), GetBlockCount(s),
                               cfg.DifficultyEpochBlocks, cfg.MinDifficultyBits)

\* A template that takes the newest mempool entries first.
CreateBlockTemplateNewestFirst(minerAddress, now, order) ==
    LET height == GetBlockCount(store)
        totalReward == CalcBlockReward(TotalMinted, height, Config)
        powReward == Share(totalReward, Config.POWRewardShare)
        posReward == Share(totalReward, Config.POSRewardShare)
        posOutputs == CalcPOSRewards(Stakes, order, posReward, Config.POSMinThreshold)
        rewardTxs ==
            IF Len(posOutputs) > 0
            THEN << NewCoinbaseTransaction(minerAddress, powReward, now),
                    MkTx("pos_reward", "", "", posReward, 0, now, posOutputs) >>
            ELSE << NewCoinbaseTransaction(minerAddress, totalReward, now) >>
        room == Config.MaxBlockTransactions - Len(rewardTxs)
        maxTxs == IF room > Len(Mempool) THEN Len(Mempool) ELSE room
        newest == [i \in 1..maxTxs |-> Mempool[Len(Mempool) + 1 - i]]
        txs == IF maxTxs > 0 THEN rewardTxs \o newest ELSE rewardTxs
        header == [Version |-> 2, PrevHash |-> lastBlock.Hash,
                   MerkleRoot |-> ComputeMerkleRoot(txs), Timestamp |-> now,
                   Bits |-> TemplateBits(store, lastBlock, Config),
                   Nonce |-> 0, Height |-> height]
    IN  [Header |-> header, Transactions |-> txs, Hash |-> 0]

\* A template whose coinbase keeps the whole reward when stakers are paid.
CreateBlockTemplateFullCoinbase(minerAddress, now, order) ==
    LET height == GetBlockCount(store)
        totalReward == CalcBlockReward(TotalMinted, height, Config)
        posReward == Share(totalReward, Config.POSRewardShare)
        posOutputs == CalcPOSRewards(Stakes, order, posReward, Config.POSMinThreshold)
        rewardTxs ==
            IF Len(posOutputs) > 0
            THEN << NewCoinbaseTransaction(minerAddress, totalReward, now),
                    MkTx("pos_reward", "", "", posReward, 0, now, posOutputs) >>
            ELSE << NewCoinbaseTransaction(minerAddress, totalReward, now) >>
        room == Config.MaxBlockTransactions - Len(rewardTxs)
        maxTxs == IF room > Len(Mempool) THEN Len(Mempool) ELSE room
        txs == IF maxTxs > 0 THEN rewardTxs \o SubSeq(Mempool, 1, maxTxs) ELSE rewardTxs
        header == [Version |-> 2, PrevHash |-> lastBlock.Hash,
                   MerkleRoot |-> ComputeMerkleRoot(txs), Timestamp |-> now,
                   Bits |-> TemplateBits(store, lastBlock, Config),
                   Nonce |-> 0, Height |-> height]
    IN  [Header |-> header, Transactions |-> txs, Hash |-> 0]

\* Blockchain.CreateBlockTemplate at time now (time.Now().Unix()).
CreateBlockTemplate(minerAddress, now, order) ==
    LET height == GetBlockCount(store)
        totalReward == CalcBlockReward(TotalMinted, height, Config)
        powReward == Share(totalReward, Config.POWRewardShare)
        posReward == Share(totalReward, Config.POSRewardShare)
        posOutputs == CalcPOSRewards(Stakes, order, posReward, Config.POSMinThreshold)
        rewardTxs ==
            IF Len(posOutputs) > 0
            THEN << NewCoinbaseTransaction(minerAddress, powReward, now),
                    MkTx("pos_reward", "", "", posReward, 0, now, posOutputs) >>
            ELSE << NewCoinbaseTransaction(minerAddress, totalReward, now) >>
        room == Config.MaxBlockTransactions - Len(rewardTxs)
        maxTxs == IF room > Len(Mempool) THEN Len(Mempool) ELSE room
        txs == IF maxTxs > 0 THEN rewardTxs \o SubSeq(Mempool, 1, maxTxs) ELSE rewardTxs
        header == [Version |-> 2, PrevHash |-> lastBlock.Hash,
                   MerkleRoot |-> ComputeMerkleRoot(txs), Timestamp |-> now,
                   Bits |-> TemplateBits(store, lastBlock, Config),
                   Nonce |-> 0, Height |-> height]
    IN  [Header |-> header, Transactions |-> txs, Hash |-> 0]

\* Blockchain.CreateBlockTemplate of a chain whose configuration is cfg.
CreateBlockTemplateFor(cfg, minerAddress, now, order) ==
    LET height == GetBlockCount(store)
        totalReward == CalcBlockReward(TotalMinted, height, cfg)
        powReward == Share(totalReward, cfg.POWRewardShare)
        posReward == Share(totalReward, cfg.POSRewardShare)
        posOutputs == CalcPOSRewards(Stakes, order, posReward, cfg.POSMinThreshold)
        rewardTxs ==
            IF Len(posOutputs) > 0
            THEN << NewCoinbaseTransaction(minerAddress, powReward, now),
                    MkTx("pos_reward", "", "", posReward, 0, now, posOutputs) >>
            ELSE << NewCoinbaseTransaction(minerAddress, totalReward, now) >>
        room == cfg.MaxBlockTransactions - Len(rewardTxs)
        maxTxs == IF room > Len(Mempool) THEN Len(Mempool) ELSE room
        txs == IF maxTxs > 0 THEN rewardTxs \o SubSeq(Mempool, 1, maxTxs) ELSE rewardTxs
        header == [Version |-> 2, PrevHash |-> lastBlock.Hash,
                   MerkleRoot |-> ComputeMerkleRoot(txs), Timestamp |-> now,
                   Bits |-> TemplateBits(store, lastBlock, cfg),
                   Nonce |-> 0, Height |-> height]
    IN  [Header |-> header, Transactions |-> txs, Hash |-> 0]

\* ------------------------------------------------------------------------
\* The miner (cmd/dvcminer) and the inputs of the model
\* ------------------------------------------------------------------------

\* The miner's loop: the first nonce of 0 .. MaxNonce whose hash meets the
\* bits, stored with its hash; no block when the bounded search finds none.
Mine(tmpl) ==
    LET solves(n) == CheckProofOfWork(ComputeHash([tmpl.Header EXCEPT !.Nonce = n]),
                                      tmpl.Header.Bits)
        found == {n \in 0..MaxNonce : solves(n)}
    IN  IF found = {} THEN {}
        ELSE LET nonce == CHOOSE n \in found : \A m \in found : n <= m
                 header == [tmpl.Header EXCEPT !.Nonce = nonce]
             IN  { [Header |-> header, Transactions |-> tmpl.Transactions,
                    Hash |-> ComputeHash(header)] }

\* The time of the next block or template: one second after the tip.
Now == lastBlock.Header.Timestamp + 1

\* The orders in which a Go map range may visit the stake ledger.
StakeOrders ==
    {o \in UNION {[1..n -> DOMAIN Stakes] : n \in {Cardinality(DOMAIN Stakes)}} :
        \A i, j \in DOMAIN o : i # j => o[i] # o[j]}

\* A block on the tip with the template's header fields and the given
\* transactions, before the nonce search.
BlockOnTip(txs) ==
    [ Header |-> [Version |-> 2, PrevHash |-> lastBlock.Hash,
                  MerkleRoot |-> ComputeMerkleRoot(txs), Timestamp |-> Now,
                  Bits |-> TemplateBits(store, lastBlock, Config),
                  Nonce |-> 0, Height |-> GetBlockCount(store)],
      Transactions |-> txs, Hash |-> 0 ]

\* Transaction lists a submitter other than the template builder may choose:
\* a coinbase that mints 4 more than the reward, the allowed coinbase twice,
\* and a stake with no coinbase.
SubmitterTxLists ==
    LET reward == CalcBlockReward(TotalMinted, GetBlockCount(store), Config)
    IN  { << NewCoinbaseTransaction("A", reward + 4, Now) >>,
          << NewCoinbaseTransaction("A", reward, Now),
             NewCoinbaseTransaction("B", reward, Now) >>,
          << NewStakeTransaction("stake", "B", 8, 3) >> }

SubmitterBlocks == UNION { Mine(BlockOnTip(txs)) : txs \in SubmitterTxLists }

TemplateBlocks == UNION { Mine(CreateBlockTemplate("A", Now, o)) : o \in StakeOrders }

\* ------------------------------------------------------------------------
\* NewBlockchain: the genesis commit, or the migration of blockchain.json
\* ------------------------------------------------------------------------

\* What CreateBlockTemplate reads of the store of a node whose chain is the
\* sequence blocks, genesis first: the best height and the blocks by height.
ChainStore(blocks) ==
    [ bestHeight |-> Len(blocks) - 1,
      blocks |-> [h \in 0..(Len(blocks) - 1) |-> blocks[h + 1]] ]

\* The block another node builds on its chain (genesis first) with the
\* given transactions, before the nonce search: CreateBlockTemplate of that
\* node, whose clock shows one second after the timestamp of its tip; the
\* bits are the tip's, the retarget at a multiple of the interval, or the
\* progressive floor's.
PeerTemplate(chain, txs) ==
    LET prev == chain[Len(chain)]
    IN  [ Header |-> [Version |-> 2, PrevHash |-> prev.Hash,
                      MerkleRoot |-> ComputeMerkleRoot(txs),
                      Timestamp |-> prev.Header.Timestamp + 1,
                      Bits |-> TemplateBits(ChainStore(chain), prev, Config),
                      Nonce |-> 0, Height |-> GetBlockCount(ChainStore(chain))],
          Transactions |-> txs, Hash |-> 0 ]

\* The block an earlier version of the node mined on its chain for miner A
\* when minted had been minted, as blockchain.json holds it; none when the
\* nonce search finds none.
LegacyBlocks(chain, minted) ==
    LET prev == chain[Len(chain)]
        reward == CalcBlockReward(minted, prev.Header.Height + 1, Config)
        txs == << NewCoinbaseTransaction("A", reward, prev.Header.Timestamp + 1) >>
    IN  Mine(PeerTemplate(chain, txs))

\* What the coinbases of the first n blocks of a legacy chain minted.
RECURSIVE LegacyMinted(_, _)
LegacyMinted(blocks, n) ==
    IF n <= 1 THEN 0 ELSE LegacyMinted(blocks, n - 1) + blocks[n].Transactions[1].Amount

\* The content of blockchain.json (oldChainData) for a chain of that node:
\* its blocks, the balances map, the stakes map and the minted total.
LegacyChain(blocks) ==
    [Blocks |-> blocks,
     Balances |-> [a \in {"A"} |-> LegacyMinted(blocks, Len(blocks))],
     Stakes |-> <<>>,
     TotalMinted |-> LegacyMinted(blocks, Len(blocks))]

\* The files of a chain of one and of two blocks on genesis.
LegacyFiles ==
    LET genesis == CreateGenesisBlock(Config)
    IN  UNION { { LegacyChain(<<genesis, first>>) }
                  \cup { LegacyChain(<<genesis, first, second>>) :
                            second \in LegacyBlocks(<<genesis, first>>,
                                                    first.Transactions[1].Amount) } :
                first \in LegacyBlocks(<<genesis>>, 0) }

\* The storage.BlockCommit migrateFromJSON builds for block number i of the
\* file: the block and its txids, and for the last block also the balances,
\* the stakes and the minted total of the file.
LegacyCommit(data, i) ==
    LET block == data.Blocks[i]
        last == i = Len(data.Blocks)
    IN  [ Height      |-> block.Header.Height,
          Hash        |-> block.Hash,
          Block       |-> block,
          Balances    |-> IF last THEN data.Balances ELSE <<>>,
          Stakes      |-> IF last THEN [a \in DOMAIN data.Stakes |-> <<data.Stakes[a]>>]
                          ELSE <<>>,
          TxIDs       |-> CollectTxIDs(block),
          TotalMinted |-> IF last THEN data.TotalMinted ELSE 0 ]

\* The store after the commits of the first n blocks of the file.
RECURSIVE MigratedBlocks(_, _, _)
MigratedBlocks(s, data, n) ==
    IF n = 0 THEN s ELSE CommitBlock(MigratedBlocks(s, data, n - 1), LegacyCommit(data, n))

\* Blockchain.migrateFromJSON on the empty store s.  file is <<>> when there
\* is no readable blockchain.json and <<data>> otherwise; failAt is the
\* number of the block whose Store.CommitBlock returns an error, 0 for none.
\* ok is what it returns; on an error the commits made before it stay in the
\* store.
migrateFromJSON(s, file, failAt) ==
    IF file = <<>> \/ Len(file[1].Blocks) = 0
    THEN [ok |-> FALSE, store |-> s]
    ELSE LET data == file[1]
         IN  IF failAt # 0
             THEN [ok |-> FALSE, store |-> MigratedBlocks(s, data, failAt - 1)]
             ELSE [ok |-> TRUE,
                   store |-> MigratedBlocks(s, data, Len(data.Blocks)),
                   Balances |-> [a \in Addrs |-> IF a \in DOMAIN data.Balances
                                                 THEN data.Balances[a] ELSE 0],
                   Stakes |-> data.Stakes,
                   TotalMinted |-> data.TotalMinted,
                   lastBlock |-> data.Blocks[Len(data.Blocks)]]

\* NewBlockchain on a store that has data: the state a restarted node loads.
Loaded(s) ==
    [ Balances    |-> s.balances,
      Stakes      |-> s.stakes,
      TotalMinted |-> s.totalMinted,
      lastBlock   |-> s.blocks[s.bestHeight] ]

\* NewBlockchain on an empty store after migrateFromJSON returned false: the
\* genesis commit.
GenesisCommit(cfg) ==
    LET genesis == CreateGenesisBlock(cfg)
    IN  [ Height |-> 0, Hash |-> genesis.Hash, Block |-> genesis,
          Balances |-> <<>>, Stakes |-> <<>>,
          TxIDs |-> CollectTxIDs(genesis), TotalMinted |-> 0 ]

\* NewBlockchain on the store s: the store it leaves and the in-memory state.
NewBlockchain(s, file, failAt) ==
    IF HasData(s)
    THEN [store |-> s] @@ Loaded(s)
    ELSE LET m == migrateFromJSON(s, file, failAt)
         IN  IF m.ok
             THEN [store |-> m.store, Balances |-> m.Balances, Stakes |-> m.Stakes,
                   TotalMinted |-> m.TotalMinted, lastBlock |-> m.lastBlock]
             ELSE [store |-> CommitBlock(m.store, GenesisCommit(Config)),
                   Balances |-> [a \in Addrs |-> 0], Stakes |-> <<>>,
                   TotalMinted |-> 0, lastBlock |-> CreateGenesisBlock(Config)]

\* What a node is started on: no blockchain.json, or one of the files, read
\* with no error or with a store error at one of its blocks.
Boots ==
    { [file |-> <<>>, failAt |-> 0] }
      \cup UNION { { [file |-> <<f>>, failAt |-> k] : k \in 0..Len(f.Blocks) } :
                    f \in LegacyFiles }

\* The hashes of the committed chain of store s.
ChainHashes(s) == {s.blocks[k].Hash : k \in 0..s.bestHeight}

\* Blockchain.GetBestHeight: the store's best height, 0 for an empty store.
ChainBestHeight(s) == IF GetBestHeight(s) < 0 THEN 0 ELSE GetBestHeight(s)

\* ------------------------------------------------------------------------
\* Actions
\* ------------------------------------------------------------------------

\* The node after NewBlockchain, NewNode and NewServer on an empty data
\* directory, or on one that holds a blockchain.json of an earlier version.
Init ==
    \E boot \in Boots :
        LET bc == NewBlockchain(EmptyStore, boot.file, boot.failAt)
        IN  /\ store = bc.store
            /\ txn = NoTxn
            /\ mu = "free"
            /\ Balances = bc.Balances
            /\ Stakes = bc.Stakes
            /\ Mempool = <<>>
            /\ TotalMinted = bc.TotalMinted
            /\ lastBlock = bc.lastBlock
            /\ lastErr = "ok"
            /\ failures = IF boot.failAt # 0 THEN 1 ELSE 0
            /\ ledgerOf = IF bc.lastBlock.Header.Height > 0 THEN ChainHashes(bc.store)
                          ELSE {CreateGenesisBlock(Config).Hash}
            /\ rd = IdleReader
            /\ net = InitNet

\* The chain, the store and the reader are as they were.
ChainSame == UNCHANGED <<store, txn, mu, memory, failures, ledgerOf, rd>>

\* The node process ends (a stop, or a crash at any point) and is started
\* again on the same database file: an open bolt transaction, the tasks and
\* the connections are lost, and NewBlockchain loads the in-memory state from
\* the store.  A miner is a process of its own and keeps the template it
\* holds.
Restart ==
    /\ Balances' = NewBlockchain(store, <<>>, 0).Balances
    /\ Stakes' = NewBlockchain(store, <<>>, 0).Stakes
    /\ TotalMinted' = NewBlockchain(store, <<>>, 0).TotalMinted
    /\ lastBlock' = NewBlockchain(store, <<>>, 0).lastBlock
    /\ Mempool' = <<>>
    /\ txn' = NoTxn
    /\ mu' = "free"
    /\ rd' = IdleReader
    /\ ledgerOf' = ChainHashes(store)
    /\ lastErr' = IF txn # NoTxn /\ txn[1].step \in 1..CommitSteps
                  THEN "crashed in commit" ELSE "restarted"
    /\ net' = [InitNet EXCEPT !.work = net.work]
    /\ UNCHANGED <<store, failures>>

\* The node and the miners end and are started again together: the miners
\* begin their loops without a template.
RestartAll ==
    /\ Balances' = NewBlockchain(store, <<>>, 0).Balances
    /\ Stakes' = NewBlockchain(store, <<>>, 0).Stakes
    /\ TotalMinted' = NewBlockchain(store, <<>>, 0).TotalMinted
    /\ lastBlock' = NewBlockchain(store, <<>>, 0).lastBlock
    /\ Mempool' = <<>>
    /\ txn' = NoTxn
    /\ mu' = "free"
    /\ rd' = IdleReader
    /\ ledgerOf' = ChainHashes(store)
    /\ lastErr' = "restarted"
    /\ net' = InitNet
    /\ UNCHANGED <<store, failures>>

\* ------------------------------------------------------------------------
\* The steps every handler is made of.  A step is what a task does from one
\* access of state it shares with other tasks (the chain under bc.mu, n.Peers
\* under n.mu, a connection under its p.mu, the reply to its client) up to
\* the next; the handlers below are sequences of such steps, and steps of
\* different tasks follow one another in any order.
\* ------------------------------------------------------------------------

\* Peer.Send of the first message of task t's queue: the line is written to
\* the connection under the record's mutex, whatever the task holds of the
\* chain lock.  After the last Send of a loop the task releases n.mu.RLock
\* and goes on.
Send(t) ==
    /\ net.tasks[t].pc = "send"
    /\ LET task == net.tasks[t]
           to == task.queue[1].to
           rest == Tail(task.queue)
       IN  net' = Stepped(t, FALSE,
                          [NoSends EXCEPT ![to] = << WrittenHolding(task.queue[1].msg, task.lock) >>],
                          NoReply, <<>>,
                          IF rest = <<>> THEN Goes(t, task, task.then)
                          ELSE [task EXCEPT !.queue = rest])
    /\ lastErr' = ""
    /\ ChainSame

\* Node.BroadcastBlock, Node.BroadcastTx and the relay loop of the "block"
\* handler, up to the first Send: n.mu.RLock is taken and the loop has the
\* peers of n.Peers before it, in the order of a map range; the relay loop of
\* a connection's task leaves out the records under its own address.  The
\* task then answers its client (a worker) or reads on (a connection's task).
Broadcast(t, order) ==
    /\ net.tasks[t].pc = "broadcast"
    /\ order \in PeerOrders(Targets(IF t \in PeerIds THEN net.peers[t].addr ELSE ""))
    /\ LET task == net.tasks[t]
           job == task.job[1]
       IN  net' = Stepped(t, FALSE, NoSends, NoReply, <<>>,
                          Queued(t, task,
                                SendEach(order, Message(job.type, job.payload)),
                                TRUE,
                                IF t \in Workers THEN "reply" ELSE "reading"))
    /\ lastErr' = ""
    /\ ChainSame

\* writeRPCResult, writeRPCError, jsonOK and jsonErr: the worker writes the
\* reply of its handler to its client and is free for the next request.  A
\* miner keeps the template of a getblocktemplate reply.
Reply(t) ==
    /\ net.tasks[t].pc = "reply"
    /\ LET job == net.tasks[t].job[1]
       IN  net' = [Stepped(t, FALSE, NoSends, << job.reply >>, <<>>, Waiting(t))
                     EXCEPT !.work = IF "template" \in DOMAIN job.reply
                                     THEN [@ EXCEPT ![job.miner] = << job.reply.template >>]
                                     ELSE @]
    /\ lastErr' = ""
    /\ ChainSame

\* Task t calls a chain method, whose first line takes bc.mu in the given
\* mode: Lock waits until no task holds the lock, RLock until no task holds
\* it for writing.
TakesLock(t, mode) ==
    /\ net.tasks[t].lock = "none"
    /\ IF mode = "Lock" THEN \A u \in Tasks : net.tasks[u].lock = "none"
       ELSE \A u \in Tasks : net.tasks[u].lock # "Lock"
    /\ net' = [net EXCEPT !.tasks[t].lock = mode,
                          !.sent = NoSends, !.reply = NoReply, !.msg = <<>>]
    /\ lastErr' = ""
    /\ ChainSame

\* The chain method task t is in returns: its deferred unlock runs and the
\* task goes on in its handler.
Unlocks(t) ==
    /\ net.tasks[t].pc = "unlock"
    /\ net' = [net EXCEPT !.tasks[t] = ReturnsUnlocked(net.tasks[t].after[1]),
                          !.sent = NoSends, !.reply = NoReply, !.msg = <<>>]
    /\ lastErr' = ""
    /\ ChainSame

\* What a handler carries after a chain method: the message it will write
\* to the peers, the miner whose request it serves ("" for another client)
\* and the reply to its client.
Job(type, payload, miner, reply) ==
    << [type |-> type, payload |-> payload, miner |-> miner, reply |-> reply] >>

\* Whether the miner for address m waits for the reply to a request.
Busy(m) ==
    \E t \in Workers : net.tasks[t].job # <<>> /\ net.tasks[t].job[1].miner = m

\* ------------------------------------------------------------------------
\* The JSON-RPC handlers of the miner interface (server.go 89-162)
\* ------------------------------------------------------------------------

\* Server.rpcSubmitBlock up to the return of AddBlock, for a request of the
\* miner for address miner ("" for another client): on an error the handler
\* goes on to reply with it, otherwise to BroadcastBlock.
rpcSubmitBlock(t, miner, block, commitOk) ==
    /\ net.tasks[t].pc = "idle"
    /\ AddBlock(block, commitOk)
    /\ net' = [Stepped(t, FALSE, NoSends, NoReply, Received(t, "submitblock", block),
                       IF lastErr' = "ok"
                       THEN [Waiting(t) EXCEPT
                               !.pc = "broadcast",
                               !.job = Job("block", block, miner,
                                           [accepted |-> TRUE, hash |-> block.Hash,
                                            height |-> block.Header.Height])]
                       ELSE [Waiting(t) EXCEPT
                               !.pc = "reply",
                               !.job = Job("block", <<>>, miner,
                                           [error |-> lastErr'])])
                 EXCEPT !.work = IF miner = "" THEN @ ELSE [@ EXCEPT ![miner] = <<>>]]

\* Server.rpcGetBlockTemplate up to the return of CreateBlockTemplate, which
\* reads the clock as now: the handler goes on to reply with the template.
rpcGetBlockTemplate(t, minerAddress, now, order) ==
    /\ net.tasks[t].pc = "idle"
    /\ mu = "free"
    /\ net' = Stepped(t, FALSE, NoSends, NoReply, <<>>,
                      [Waiting(t) EXCEPT
                          !.pc = "reply",
                          !.job = Job("template", <<>>, minerAddress,
                                      [template |->
                                          CreateBlockTemplate(minerAddress, now, order)])])
    /\ lastErr' = "template"
    /\ ChainSame

\* The template a handler is about to reply with, <<>> when task t is no
\* such handler.
TemplateOf(t) ==
    IF /\ net.tasks[t].pc = "reply"
       /\ "template" \in DOMAIN net.tasks[t].job[1].reply
    THEN << net.tasks[t].job[1].reply.template >> ELSE <<>>

\* ------------------------------------------------------------------------
\* The miner (cmd/dvcminer): getblocktemplate, the nonce search, submitblock
\* ------------------------------------------------------------------------

\* The block the miner for m finds on the template it holds: none while it
\* holds no template, and none when no nonce of the search meets the bits.
MinedWork(m) == IF net.work[m] = <<>> THEN {} ELSE Mine(net.work[m][1])

\* The miner's getblocktemplate request, at the start of its loop and again
\* when its nonce search ended without a block.
MinerFetches(t, m, now, order) ==
    /\ ~Busy(m)
    /\ MinedWork(m) = {}
    /\ rpcGetBlockTemplate(t, m, now, order)

\* The miner's submitblock request with the block it found; whatever the
\* reply, the miner then starts its loop again.
MinerSubmits(t, m, commitOk) ==
    /\ ~Busy(m)
    /\ \E b \in MinedWork(m) : rpcSubmitBlock(t, m, b, commitOk)

\* ------------------------------------------------------------------------
\* The wallet handlers that make transactions (server.go 240-287, 315-377)
\* ------------------------------------------------------------------------

\* The addresses whose keys the node's wallet manager holds.
NodeWallets == {"A"}

\* The fee handleWalletSend gives every transfer (0.001 coin), in the
\* amounts of this configuration.
WalletFee == 4

\* A request to a wallet handler at time now: kind is "send", "stake" or
\* "unstake"; to is "" for the last two.
WalletRequest(kind, from, to, amount, now) ==
    [kind |-> kind, from |-> from, to |-> to, amount |-> amount, now |-> now]

\* The transaction the handler of a request builds.
WalletTx(req) ==
    IF req.kind = "send"
    THEN NewTransferTransaction(req.from, req.to, req.amount, WalletFee, req.now)
    ELSE NewStakeTransaction(req.kind, req.from, req.amount, req.now)

\* What a wallet handler refuses before it builds a transaction, "" when it
\* goes on: a request without an address or a positive amount, and a
\* transfer from an address WalletManager.Sign has no key for.
WalletRefusal(req) ==
    IF req.kind = "send"
    THEN IF req.from = "" \/ req.to = "" \/ req.amount <= 0
         THEN "from, to, and amount (>0) required"
         ELSE IF req.from \notin NodeWallets THEN "cannot sign: wallet not found"
         ELSE ""
    ELSE IF req.from = "" \/ req.amount <= 0 THEN "address and amount (>0) required"
         ELSE ""

\* Server.handleWalletSend, handleWalletStake and handleWalletUnstake up to
\* the return of AddToMempool: on a refusal or an error the handler goes on
\* to reply with it, otherwise to BroadcastTx.
handleWallet(t, req) ==
    LET tx == WalletTx(req)
    IN  /\ net.tasks[t].pc = "idle"
        /\ IF WalletRefusal(req) # ""
           THEN /\ lastErr' = WalletRefusal(req)
                /\ ChainSame
           ELSE AddToMempool(tx)
        /\ net' = Stepped(t, FALSE, NoSends, NoReply, <<>>,
                          IF lastErr' = "ok"
                          THEN [Waiting(t) EXCEPT
                                  !.pc = "broadcast",
                                  !.job = Job("tx", tx, "",
                                              [txid |-> tx.TxID, status |-> "pending"])]
                          ELSE [Waiting(t) EXCEPT
                                  !.pc = "reply",
                                  !.job = Job("tx", <<>>, "", [error |-> lastErr'])])

\* ------------------------------------------------------------------------
\* The task of a connection (node.go 147-252): handlePeer and handleMessage
\* ------------------------------------------------------------------------

\* n.Peers with the record of connection p under address a.
Registered(p, a) ==
    [net EXCEPT !.peers = [q \in DOMAIN @ \cup {p} |->
                              IF q = p THEN [addr |-> a, Height |-> 0] ELSE @[q]],
                !.entry[a] = p,
                !.first[p] = ""]

\* Node.handlePeer for connection p from remote address a, accepted or
\* dialed, up to n.mu.Unlock: the Peer record is made and put into n.Peers
\* under a, over a record that is there already.
handlePeer(p, a) ==
    /\ net.tasks[p].pc = "none"
    /\ PeersLockFree
    /\ net' = [Registered(p, a) EXCEPT !.sent = NoSends, !.reply = NoReply, !.msg = <<>>,
                                       !.tasks[p] = [NoTask EXCEPT !.pc = "greet"]]
    /\ lastErr' = "registered"
    /\ ChainSame

\* The version message with the best height the task has read.
VersionMessage ==
    Message("version", [Height |-> ChainBestHeight(store)])

\* Node.handlePeer, the call of GetBestHeight for the version payload; the
\* task goes on to write the version message and then into its read loop.
Greets(p) ==
    /\ net.tasks[p].pc = "greet"
    /\ mu = "free"
    /\ net' = Stepped(p, FALSE, NoSends, NoReply, <<>>,
                      Queued(p, net.tasks[p], << [to |-> p, msg |-> VersionMessage] >>,
                            FALSE, "reading"))
    /\ lastErr' = "connected"
    /\ ChainSame

\* Node.handleMessage for a "version" message up to the call of Send: the
\* peer's height is recorded in its Peer record; the task goes on to write
\* verack and then to compare the heights.
handleVersion(p, height) ==
    /\ p \in Readers
    /\ Arrived(p, "version", [Height |-> height])
    /\ net' = [Stepped(p, TRUE, NoSends, NoReply, <<>>,
                       [Waiting(p) EXCEPT
                           !.pc = "send",
                           !.queue = << [to |-> p, msg |-> Message("verack", <<>>)] >>,
                           !.then = "compare",
                           !.job = << [height |-> height] >>])
                 EXCEPT !.peers[p].Height = height]
    /\ lastErr' = "version"
    /\ ChainSame

\* The comparison vp.Height > n.Chain.GetBestHeight(): the task goes on to
\* request blocks or back into its read loop.
ComparesHeight(p) ==
    /\ net.tasks[p].pc = "compare"
    /\ mu = "free"
    /\ net' = Stepped(p, FALSE, NoSends, NoReply, <<>>,
                      Goes(p, net.tasks[p],
                           IF net.tasks[p].job[1].height > ChainBestHeight(store)
                           THEN "request" ELSE "reading"))
    /\ lastErr' = ""
    /\ ChainSame

\* The getblocks message of requestBlocks for the best height the task has
\* read.
GetBlocksMessage ==
    Message("getblocks", [FromHeight |-> ChainBestHeight(store) + 1])

\* The second call of GetBestHeight, for the argument of requestBlocks; the
\* task goes on to write getblocks and then into its read loop.
RequestsBlocks(p) ==
    /\ net.tasks[p].pc = "request"
    /\ mu = "free"
    /\ net' = Stepped(p, FALSE, NoSends, NoReply, <<>>,
                      Queued(p, [net.tasks[p] EXCEPT !.job = <<>>],
                            << [to |-> p, msg |-> GetBlocksMessage] >>, FALSE, "reading"))
    /\ lastErr' = "getblocks"
    /\ ChainSame

\* Node.handleMessage for a "verack" message: the line is read, whatever
\* its payload, and nothing is done.
handleVerack(p) ==
    /\ p \in Readers
    /\ (net.link.up /\ p = LinkPeer) =>
          (net.link.inbox # <<>> /\ net.link.inbox[1].type = "verack")
    /\ net' = Stepped(p, TRUE, NoSends, NoReply, <<>>, Waiting(p))
    /\ lastErr' = "verack"
    /\ ChainSame

\* The heights of the blocks bucket of store s from a height on.
HeightsFrom(s, fromHeight) == {h \in DOMAIN s.blocks : h >= fromHeight}

\* Blockchain.GetBlocks with Store.GetBlocksFrom: the cursor starts at the
\* key of the height and runs to the end of the blocks bucket, whose keys
\* are in ascending order.
GetBlocks(s, fromHeight) ==
    LET hs == HeightsFrom(s, fromHeight)
    IN  [i \in 1..Cardinality(hs) |->
            s.blocks[CHOOSE h \in hs : Cardinality({k \in hs : k < h}) = i - 1]]

\* Node.sendBlocks: one Send of a block message for each block GetBlocks
\* returned.
sendBlocks(p, fromHeight) ==
    LET blocks == GetBlocks(store, fromHeight)
    IN  [i \in DOMAIN blocks |->
            [to |-> p, msg |-> Message("block", blocks[i])]]

\* Node.handleMessage for a "getblocks" message up to the return of
\* GetBlocks; the task goes on to write the blocks one by one.
handleGetBlocks(p, fromHeight) ==
    /\ p \in Readers
    /\ Arrived(p, "getblocks", [FromHeight |-> fromHeight])
    /\ mu = "free"
    /\ net' = Stepped(p, TRUE, NoSends, NoReply, <<>>,
                      Queued(p, Waiting(p), sendBlocks(p, fromHeight), FALSE, "reading"))
    /\ lastErr' = "blocks sent"
    /\ ChainSame

\* A block handler that passes a block at or below the best height on to
\* the other peers.
handleBlockRelayCopies(p, b) ==
    /\ p \in Readers
    /\ Arrived(p, "block", b)
    /\ mu = "free"
    /\ net' = Stepped(p, TRUE, NoSends, NoReply, Received(p, "block", b),
                      [Waiting(p) EXCEPT
                          !.pc = IF b.Header.Height <= ChainBestHeight(store)
                                 THEN "broadcast" ELSE "addblock",
                          !.job = Job("block", b, "", <<>>)])
    /\ lastErr' = IF b.Header.Height <= ChainBestHeight(store) THEN "ignored" ELSE lastErr
    /\ ChainSame

\* Node.handleMessage for a "block" message up to the return of
\* GetBestHeight: a block at or below the best height is dropped, with any
\* other the task goes on to AddBlock.
handleBlock(p, b) ==
    /\ p \in Readers
    /\ Arrived(p, "block", b)
    /\ mu = "free"
    /\ net' = Stepped(p, TRUE, NoSends, NoReply, Received(p, "block", b),
                      IF b.Header.Height <= ChainBestHeight(store)
                      THEN Waiting(p)
                      ELSE [Waiting(p) EXCEPT !.pc = "addblock",
                                              !.job = Job("block", b, "", <<>>)])
    /\ lastErr' = IF b.Header.Height <= ChainBestHeight(store) THEN "ignored" ELSE lastErr
    /\ ChainSame

\* The block a task is about to pass to AddBlock, <<>> when it has none.
Pending(t) ==
    IF net.tasks[t].pc = "addblock" THEN << net.tasks[t].job[1].payload >> ELSE <<>>

\* A block handler that goes on to its relay loop whatever AddBlock returned.
AddsBlockRelayAlways(p, commitOk) ==
    /\ net.tasks[p].pc = "addblock"
    /\ AddBlock(net.tasks[p].job[1].payload, commitOk)
    /\ net' = Stepped(p, FALSE, NoSends, NoReply, <<>>,
                      Goes(p, net.tasks[p], "broadcast"))

\* The "block" handler's call of AddBlock: on an error the task goes back
\* into its read loop, otherwise on to the relay loop.
AddsBlock(p, commitOk) ==
    /\ net.tasks[p].pc = "addblock"
    /\ AddBlock(net.tasks[p].job[1].payload, commitOk)
    /\ net' = Stepped(p, FALSE, NoSends, NoReply, <<>>,
                      Goes(p, net.tasks[p], IF lastErr' = "ok" THEN "broadcast" ELSE "reading"))

\* Node.handleMessage for a "tx" message: the transaction goes to
\* AddToMempool, whose error is dropped; nothing is sent.
handleTx(p, tx) ==
    /\ p \in Readers
    /\ Arrived(p, "tx", tx)
    /\ AddToMempool(tx)
    /\ net' = Stepped(p, TRUE, NoSends, NoReply, <<>>, Waiting(p))

\* Node.handlePeer after its read loop has ended (the remote end closed the
\* connection, or the scanner failed): the entry under the connection's
\* address leaves n.Peers, whichever connection's record it holds, and the
\* connection is closed.
EndHandlePeer(p) ==
    /\ p \in Readers
    /\ PeersLockFree
    /\ net' = [net EXCEPT !.peers = [q \in DOMAIN @ \ {p} |-> @[q]],
                          !.entry[net.peers[p].addr] = "",
                          !.tasks[p] = NoTask,
                          !.first[p] = "",
                          !.sent = NoSends, !.reply = NoReply, !.msg = <<>>,
                          !.link = IF p = LinkPeer THEN NoLink ELSE @]
    /\ lastErr' = "disconnected"
    /\ ChainSame

\* ------------------------------------------------------------------------
\* The steps of the tasks, for every task that can take them
\* ------------------------------------------------------------------------

\* A task enters BroadcastBlock, BroadcastTx or the relay loop.
TaskBroadcasts ==
    \E t \in Tasks :
        /\ net.tasks[t].pc = "broadcast"
        /\ \E order \in PeerOrders(Targets(IF t \in PeerIds THEN net.peers[t].addr ELSE "")) :
              Broadcast(t, order)

\* A task makes its next Send.
TaskSends == \E t \in Tasks : Send(t)

\* A worker writes the reply to its client.
TaskReplies == \E t \in Workers : Reply(t)

\* ------------------------------------------------------------------------
\* The node with wallet clients and one miner
\* ------------------------------------------------------------------------

\* The worker that serves the connection of the wallet client, and the one
\* that serves the connection of the miner for address A.
WalletWorker == "w1"

MinerWorker == "w2"

\* The worker that serves the connection of the miner for address m.
WorkerOf(m) == IF m = "A" THEN MinerWorker ELSE "w3"

\* The requests wallet clients make: two transfers of A that with their fee
\* each fit a balance of 16 but not both a balance of 24, a stake and an
\* unstake.
WalletRequests ==
    { WalletRequest("send", "A", "B", 12, 1),
      WalletRequest("send", "A", "B", 12, 2),
      WalletRequest("stake", "A", "", 8, 3),
      WalletRequest("unstake", "A", "", 8, 4) }

\* A wallet request.
SubmitTx ==
    /\ Len(Mempool) < MaxMempool
    /\ \E req \in WalletRequests : handleWallet(WalletWorker, req)

\* The miner for address A asks for a template.
MinerFetch ==
    /\ store.bestHeight < MaxHeight
    /\ \E o \in StakeOrders : MinerFetches(MinerWorker, "A", Now, o)

\* The miner for address A submits the block it found.
MinerSubmit == \E commitOk \in BOOLEAN : MinerSubmits(MinerWorker, "A", commitOk)

Next ==
    \/ SubmitTx
    \/ MinerFetch
    \/ MinerSubmit
    \/ TaskBroadcasts
    \/ TaskReplies
    \/ Restart

Spec == Init /\ [][Next]_vars

\* ------------------------------------------------------------------------
\* The node fed by a miner that uses the template and by a submitter that
\* chooses the transactions of its blocks itself
\* ------------------------------------------------------------------------

\* The worker that serves the connection of a client that calls submitblock
\* with blocks of its own making.
SubmitWorker == "w1"

\* Server.rpcSubmitBlock with a block the submitter built itself.
RpcSubmitBlock ==
    /\ store.bestHeight < MaxHeight
    /\ \E b \in SubmitterBlocks, commitOk \in BOOLEAN :
          rpcSubmitBlock(SubmitWorker, "", b, commitOk)

NextSubmit ==
    \/ MinerFetch
    \/ MinerSubmit
    \/ RpcSubmitBlock
    \/ TaskBroadcasts
    \/ TaskReplies
    \/ Restart

SpecSubmit == Init /\ [][NextSubmit]_vars

\* ------------------------------------------------------------------------
\* Blocks with headers of the sender's choosing (RPC submitters and peers)
\* ------------------------------------------------------------------------

\* The bits a sender may put in a header: the minimum difficulty, the floor of
\* the first epoch after genesis (half the target), and bits twice as easy as
\* the minimum.
BitsChoices ==
    { Config.MinDifficultyBits,
      ProgressiveDifficultyFloor(Config.DifficultyEpochBlocks,
                                 Config.DifficultyEpochBlocks, Config.MinDifficultyBits),
      TargetToBits(2 * BitsToTarget(Config.MinDifficultyBits)) }

\* The headers a sender may choose: the expected height, one less and one
\* more; the tip's hash or another hash as prev_hash; any of the bits above;
\* and of the nonces of the bounded search the first whose hash meets the
\* bits and the first whose hash does not.
HeaderChoices ==
    LET count == GetBlockCount(store)
        txs == << NewCoinbaseTransaction("A", CalcBlockReward(TotalMinted, count, Config), Now) >>
        solves(h) == ComputeHash(h) <= BitsToTarget(h.Bits)
    IN  { h \in { [Version |-> 2, PrevHash |-> prev, MerkleRoot |-> ComputeMerkleRoot(txs),
                   Timestamp |-> Now, Bits |-> bits, Nonce |-> nonce, Height |-> height] :
                    prev \in {lastBlock.Hash, (lastBlock.Hash + 1) % HashSpace},
                    bits \in BitsChoices,
                    nonce \in 0..MaxNonce,
                    height \in {count - 1 , count, count + 1} } :
            \A n \in 0..(h.Nonce - 1) : solves([h EXCEPT !.Nonce = n]) # solves(h) }

\* Blocks with those headers, a coinbase of the allowed reward, and as hash
\* the header's hash or another value.
HeaderBlocks ==
    LET count == GetBlockCount(store)
        txs == << NewCoinbaseTransaction("A", CalcBlockReward(TotalMinted, count, Config), Now) >>
    IN  { [Header |-> h, Transactions |-> txs, Hash |-> (ComputeHash(h) + d) % HashSpace] :
            h \in HeaderChoices, d \in {0, 1} }

\* Server.rpcSubmitBlock with a block whose header the submitter chose.
RpcSubmitHeader ==
    /\ store.bestHeight < MaxHeight
    /\ \E b \in HeaderBlocks, commitOk \in BOOLEAN :
          rpcSubmitBlock(SubmitWorker, "", b, commitOk)

\* A peer connects (one connection is enough for the header checks).
ConnectHeader == handlePeer(LinkPeer, AddrOf(LinkPeer))

\* The task of a connection reads the best height for its version message.
Greet == \E p \in PeerIds : Greets(p)

\* The blocks of those a peer sends: the ones with the bits of the minimum
\* difficulty and the hash of their header.
PeerHeaderBlocks ==
    {b \in HeaderBlocks : /\ b.Header.Bits = Config.MinDifficultyBits
                          /\ b.Hash = ComputeHash(b.Header)}

\* A connected peer sends a block whose header it chose.
HandleBlockMessage ==
    /\ store.bestHeight < MaxHeight
    /\ \E sender \in Readers, b \in PeerHeaderBlocks : handleBlock(sender, b)

\* The task of a connection passes the block it has read to AddBlock.
HandleBlockAdd == \E p \in PeerIds, commitOk \in BOOLEAN : AddsBlock(p, commitOk)

NextHeader ==
    \/ RpcSubmitHeader
    \/ ConnectHeader
    \/ Greet
    \/ HandleBlockMessage
    \/ HandleBlockAdd
    \/ TaskBroadcasts
    \/ TaskSends
    \/ TaskReplies
    \/ Restart

SpecHeader == Init /\ [][NextHeader]_vars

\* ------------------------------------------------------------------------
\* AddBlock and Store.CommitBlock step by step, with a crash and a reader
\* ------------------------------------------------------------------------

\* Store.GetBlockByHeight and Store.GetBlockByHash: <<>> when there is none.
GetBlockByHeight(s, height) ==
    IF height \in DOMAIN s.blocks THEN << s.blocks[height] >> ELSE <<>>

GetBlockByHash(s, hash) ==
    IF hash \in DOMAIN s.blockHashes THEN GetBlockByHeight(s, s.blockHashes[hash]) ELSE <<>>

\* Every bucket write in a transaction of its own: the file has the write as
\* soon as it is made.
DurableWriteThrough(disk, view) == view

\* What a bucket write of CommitBlock leaves in the database file, which is
\* what a restarted process reads.  CommitBlock makes all its writes inside
\* one db.Update, and bolt changes the file only when that transaction
\* commits: the file keeps its content, the write is in the transaction's view.
DurableAfterWrite(disk, view) == disk

\* A getter that reads without taking the lock.
RLockAlways(m) == TRUE

\* Whether a getter gets the chain's read lock (bc.mu.RLock) while the lock is
\* in state m: not while AddBlock holds the write lock.
RLockFree(m) == m = "free"

\* Server.rpcSubmitBlock into AddBlock, from AddBlock's first line to the
\* call of Store.CommitBlock: the write lock is taken, the block is validated
\* and applied to the in-memory state, and the bolt transaction is opened.  A
\* block that fails validation is answered with the error.
BeginAddBlock(t, block) ==
    LET err == validateBlock(store, lastBlock, block, Config)
        ap == Applied(block)
        minted == TotalMinted + ap.minted
    IN  /\ net.tasks[t].pc = "idle"
        /\ mu = "free"
        /\ txn = NoTxn
        /\ UNCHANGED <<store, Mempool, lastBlock, failures, rd>>
        /\ net' = Stepped(t, FALSE, NoSends, NoReply, Received(t, "submitblock", block),
                          IF err # "ok"
                          THEN [Waiting(t) EXCEPT
                                  !.pc = "reply",
                                  !.job = Job("block", <<>>, "", [error |-> err])]
                          ELSE [Waiting(t) EXCEPT
                                  !.pc = "commit",
                                  !.job = Job("block", block, "",
                                              [accepted |-> TRUE, hash |-> block.Hash,
                                               height |-> block.Header.Height])])
        /\ IF err # "ok"
           THEN /\ lastErr' = err
                /\ UNCHANGED <<txn, mu, Balances, Stakes, TotalMinted, ledgerOf>>
           ELSE /\ Balances' = ap.bal
                /\ Stakes' = ap.stk
                /\ TotalMinted' = minted
                /\ ledgerOf' = ledgerOf \cup {block.Hash}
                /\ mu' = "writer"
                /\ txn' = << [commit |-> BlockCommitOf(block, ap, minted),
                              base |-> store, view |-> store, step |-> 0] >>
                /\ lastErr' = ""

\* The next bucket write of the open transaction.
TxWrite ==
    /\ txn # NoTxn
    /\ txn[1].step < CommitSteps
    /\ LET view == CommitWrite(txn[1].view, txn[1].commit, txn[1].step + 1)
       IN  /\ txn' = << [txn[1] EXCEPT !.view = view, !.step = txn[1].step + 1] >>
           /\ store' = DurableAfterWrite(store, view)
    /\ UNCHANGED <<mu, memory, lastErr, failures, ledgerOf, rd, net>>

\* A write or the commit of the transaction returns an error: bolt rolls the
\* transaction back, AddBlock returns the error and releases the write lock,
\* and the task that called it goes on to reply with the error.
TxFail(t) ==
    /\ net.tasks[t].pc = "commit"
    /\ txn # NoTxn
    /\ txn[1].step <= CommitSteps
    /\ failures < MaxCommitFailures
    /\ failures' = failures + 1
    /\ txn' = NoTxn
    /\ mu' = "free"
    /\ lastErr' = "db commit failed"
    /\ net' = Stepped(t, FALSE, NoSends, NoReply, <<>>,
                      [Waiting(t) EXCEPT
                          !.pc = "reply",
                          !.job = Job("block", <<>>, "",
                                      [error |-> "db commit failed"])])
    /\ UNCHANGED <<store, memory, ledgerOf, rd>>

\* The transaction commits after its last write.
TxCommit ==
    /\ txn # NoTxn
    /\ txn[1].step = CommitSteps
    /\ store' = txn[1].view
    /\ txn' = << [txn[1] EXCEPT !.step = CommitSteps + 1] >>
    /\ UNCHANGED <<mu, memory, lastErr, failures, ledgerOf, rd, net>>

\* AddBlock after the commit: the mempool is filtered, the tip is set and the
\* write lock is released; the task that called it goes on to BroadcastBlock.
FinishAddBlock(t) ==
    /\ net.tasks[t].pc = "commit"
    /\ txn # NoTxn
    /\ txn[1].step = CommitSteps + 1
    /\ Mempool' = RemoveProcessed(Mempool, txn[1].commit.Block)
    /\ lastBlock' = txn[1].commit.Block
    /\ lastErr' = "ok"
    /\ txn' = NoTxn
    /\ mu' = "free"
    /\ net' = Stepped(t, FALSE, NoSends, NoReply, <<>>, Goes(t, net.tasks[t], "broadcast"))
    /\ UNCHANGED <<store, Balances, Stakes, TotalMinted, failures, ledgerOf, rd>>

\* A block enters AddBlock: a submitter's own, or the block a miner found on
\* a template, which carries the transactions of the mempool.
StartSubmitBlock ==
    /\ store.bestHeight < MaxHeight
    /\ \E b \in SubmitterBlocks \cup TemplateBlocks : BeginAddBlock(SubmitWorker, b)

\* The requests the wallet handlers get while blocks are committed: a stake
\* at the threshold and a transfer.
CommitRequests ==
    { WalletRequest("stake", "A", "", 8, 3),
      WalletRequest("send", "A", "B", 4, 4) }

\* Whether the transaction is new to the node: its txid is neither in the
\* mempool nor in the tx index.  The wallet handlers stamp each transaction
\* with the second of its request, and the requests here come at different
\* seconds.
Unseen(tx) ==
    /\ tx.TxID \notin DOMAIN store.txIndex
    /\ \A i \in DOMAIN Mempool : Mempool[i].TxID # tx.TxID

\* A wallet request for a new transaction while blocks are committed.
CommitWalletTx ==
    /\ Len(Mempool) < MaxMempool
    /\ \E req \in CommitRequests :
          /\ Unseen(WalletTx(req))
          /\ handleWallet(WalletWorker, req)

\* The commit of the block fails.
CommitFails == \E t \in Workers : TxFail(t)

\* AddBlock returns.
AddBlockReturns == \E t \in Workers : FinishAddBlock(t)

\* A reader task calls Blockchain.GetBestHeight.
ReadHeight ==
    /\ RLockFree(mu)
    /\ rd' = [IdleReader EXCEPT !.pc = "height", !.h = ChainBestHeight(store)]
    /\ UNCHANGED <<store, txn, mu, memory, lastErr, failures, ledgerOf, net>>

\* The reader then calls Blockchain.GetBestBlock.
ReadTip ==
    /\ rd.pc = "height"
    /\ RLockFree(mu)
    /\ rd' = [rd EXCEPT !.pc = "tip", !.tipHeight = lastBlock.Header.Height]
    /\ UNCHANGED <<store, txn, mu, memory, lastErr, failures, ledgerOf, net>>

\* The reader then calls Blockchain.GetBalance.
ReadBalance ==
    /\ rd.pc = "height"
    /\ RLockFree(mu)
    /\ rd' = [rd EXCEPT !.pc = "balance", !.ledger = ledgerOf]
    /\ UNCHANGED <<store, txn, mu, memory, lastErr, failures, ledgerOf, net>>

\* The reader then calls StakeManager.GetStake or GetTotalStaked, which take
\* the stake manager's lock and not the chain's.
ReadStakes ==
    /\ rd.pc = "height"
    /\ rd' = [rd EXCEPT !.pc = "stakes", !.stakeLedger = ledgerOf]
    /\ UNCHANGED <<store, txn, mu, memory, lastErr, failures, ledgerOf, net>>

\* The reader then calls Blockchain.GetMempool, which copies the mempool
\* under the chain's read lock.
ReadMempool ==
    /\ rd.pc = "height"
    /\ RLockFree(mu)
    /\ rd' = [rd EXCEPT !.pc = "mempool", !.mempool = Mempool]
    /\ UNCHANGED <<store, txn, mu, memory, lastErr, failures, ledgerOf, net>>

NextCommit ==
    \/ StartSubmitBlock
    \/ CommitWalletTx
    \/ TxWrite
    \/ CommitFails
    \/ TxCommit
    \/ AddBlockReturns
    \/ TaskBroadcasts
    \/ TaskReplies
    \/ Restart
    \/ ReadHeight
    \/ ReadTip
    \/ ReadBalance
    \/ ReadStakes
    \/ ReadMempool

SpecCommit == Init /\ [][NextCommit]_vars

\* ------------------------------------------------------------------------
\* Wallets, peers' transactions and templates
\* ------------------------------------------------------------------------

\* The requests the wallet handlers get in the wallet specification: a
\* transfer that with its fee takes a whole balance of 16, a stake of 12, a
\* stake that reaches the threshold only on top of an earlier stake, a stake
\* below the minimum stake, an unstake, a transfer of an address the node has
\* no key for, and a transfer of nothing.
WalletPool ==
    { WalletRequest("send", "A", "B", 12, 1),
      WalletRequest("stake", "A", "", 12, 2),
      WalletRequest("stake", "A", "", 4, 3),
      WalletRequest("stake", "A", "", 2, 4),
      WalletRequest("unstake", "A", "", 4, 5),
      WalletRequest("send", "B", "A", 4, 6),
      WalletRequest("send", "A", "B", 0, 7) }

\* The transactions a peer sends in "tx" messages: the stakes and the
\* unstake of the wallet requests, and transactions the wallet handlers never
\* make, a coinbase, a pos_reward and a transfer without a fee.
PeerTxPool ==
    { NewStakeTransaction("stake", "A", 4, 3),
      NewStakeTransaction("stake", "A", 2, 4),
      NewStakeTransaction("unstake", "A", 4, 5),
      NewCoinbaseTransaction("B", 4, 6),
      MkTx("pos_reward", "", "", 4, 0, 7, << [Address |-> "A", Amount |-> 4] >>),
      NewTransferTransaction("A", "B", 16, 0, 8) }

\* The requests the wallet handlers get while a peer sends transactions: the
\* transfer and the first stake.
MempoolRequests ==
    { WalletRequest("send", "A", "B", 12, 1),
      WalletRequest("stake", "A", "", 12, 2) }

\* A wallet request while a peer sends transactions.
MempoolSubmit ==
    /\ Len(Mempool) < MaxMempool
    /\ \E req \in MempoolRequests : handleWallet(WalletWorker, req)

\* A wallet request in the wallet specification.
WalletSubmit ==
    /\ Len(Mempool) < MaxMempool
    /\ \E req \in WalletPool : handleWallet(WalletWorker, req)

\* A connected peer sends a transaction.
HandleTxMessage ==
    /\ Len(Mempool) < MaxMempool
    /\ \E sender \in Readers, tx \in PeerTxPool : handleTx(sender, tx)

\* The miner of either address asks for a template.
WalletMinerFetch ==
    /\ store.bestHeight < MaxHeight
    /\ \E m \in Addrs, o \in StakeOrders : MinerFetches(WalletWorker, m, Now, o)

\* The miner of either address submits the block it found.
WalletMinerSubmit ==
    \E m \in Addrs, commitOk \in BOOLEAN : MinerSubmits(WalletWorker, m, commitOk)

\* A peer connects (one connection is enough for the "tx" messages).
ConnectWallet == handlePeer(LinkPeer, AddrOf(LinkPeer))

\* Wallets and miners of both addresses.
NextWallet ==
    \/ WalletSubmit
    \/ WalletMinerFetch
    \/ WalletMinerSubmit
    \/ TaskBroadcasts
    \/ TaskReplies
    \/ RestartAll

SpecWallet == Init /\ [][NextWallet]_vars

\* The miner for address A, served by the worker of the wallet client's
\* connection, asks for a template.
MempoolMinerFetch ==
    /\ store.bestHeight < MaxHeight
    /\ \E o \in StakeOrders : MinerFetches(WalletWorker, "A", Now, o)

\* That miner submits the block it found.
MempoolMinerSubmit == \E commitOk \in BOOLEAN : MinerSubmits(WalletWorker, "A", commitOk)

\* Every way into AddToMempool: wallets and a peer's "tx" messages.
NextMempool ==
    \/ MempoolSubmit
    \/ ConnectWallet
    \/ Greet
    \/ HandleTxMessage
    \/ MempoolMinerFetch
    \/ MempoolMinerSubmit
    \/ TaskBroadcasts
    \/ TaskSends
    \/ TaskReplies
    \/ RestartAll

SpecMempool == Init /\ [][NextMempool]_vars

\* The requests wallets make in the template specification: a stake at the
\* threshold and an unstake that leaves a stake below it.
TemplatePool ==
    { WalletRequest("stake", "A", "", 8, 3),
      WalletRequest("unstake", "A", "", 4, 4) }

\* A wallet request in the template specification.
TemplateSubmit ==
    /\ Len(Mempool) < MaxMempool
    /\ \E req \in TemplatePool : handleWallet(WalletWorker, req)

NextTemplate ==
    \/ TemplateSubmit
    \/ WalletMinerFetch
    \/ WalletMinerSubmit
    \/ TaskBroadcasts
    \/ TaskReplies
    \/ RestartAll

SpecTemplate == Init /\ [][NextTemplate]_vars

\* ------------------------------------------------------------------------
\* The P2P node with its peers (node.go) and the handlers that broadcast
\* ------------------------------------------------------------------------

\* The heights a peer may announce in its version message.
PeerHeights == {1, MaxHeight + 1}

\* The request wallets make and the transaction peers send in the network
\* specifications: a transfer, refused on an empty balance.
NetRequests == { WalletRequest("send", "A", "B", 12, 1) }

NetTxPool == { NewTransferTransaction("A", "B", 12, 0, 1) }

\* The blocks peers and submitters send: the block a miner finds on the
\* template of this moment; the same block with another prev_hash; and the
\* tip again, which is at the local height.
NetBlocks ==
    TemplateBlocks
      \cup { [b EXCEPT !.Header.PrevHash = (@ + 1) % HashSpace] : b \in TemplateBlocks }
      \cup { lastBlock }

\* A connection is accepted or dialed.
Connect == \E p \in PeerIds : handlePeer(p, AddrOf(p))

\* The read loop of a connection ends.
Disconnect == \E p \in PeerIds : EndHandlePeer(p)

\* A peer in its read loop sends a block.
HandleBlock ==
    /\ store.bestHeight < MaxHeight
    /\ \E sender \in Readers, b \in NetBlocks : handleBlock(sender, b)

\* A submitter calls submitblock.
NetSubmitBlock ==
    /\ store.bestHeight < MaxHeight
    /\ \E b \in NetBlocks, commitOk \in BOOLEAN : rpcSubmitBlock(SubmitWorker, "", b, commitOk)

\* Peers that announce blocks while a submitter calls submitblock.
NextNet ==
    \/ Connect
    \/ Greet
    \/ Disconnect
    \/ HandleBlock
    \/ HandleBlockAdd
    \/ NetSubmitBlock
    \/ TaskBroadcasts
    \/ TaskSends
    \/ TaskReplies
    \/ Restart

SpecNet == Init /\ [][NextNet]_vars

\* The connection of the peer whose messages of the handshake arrive; the
\* other connection is greeted and closed.
Asker == "p1"

HandleVersion == \E height \in PeerHeights : handleVersion(Asker, height)

CompareHeights == \E p \in PeerIds : ComparesHeight(p)

RequestBlocks == \E p \in PeerIds : RequestsBlocks(p)

HandleVerack == handleVerack(Asker)

HandleGetBlocks == \E fromHeight \in 0..(MaxHeight + 1) : handleGetBlocks(Asker, fromHeight)

\* Peers that greet and ask for blocks while a miner extends the chain.
NextHandshake ==
    \/ Connect
    \/ Greet
    \/ Disconnect
    \/ HandleVersion
    \/ CompareHeights
    \/ RequestBlocks
    \/ HandleVerack
    \/ HandleGetBlocks
    \/ MinerFetch
    \/ MinerSubmit
    \/ TaskBroadcasts
    \/ TaskSends
    \/ TaskReplies
    \/ Restart

SpecHandshake == Init /\ [][NextHandshake]_vars

\* A peer in its read loop sends a transaction.
HandleTx ==
    /\ Len(Mempool) < MaxMempool
    /\ \E sender \in Readers, tx \in NetTxPool : handleTx(sender, tx)

\* A wallet request.
NetWalletTx ==
    /\ Len(Mempool) < MaxMempool
    /\ \E req \in NetRequests : handleWallet(WalletWorker, req)

\* ------------------------------------------------------------------------
\* The chain's lock call by call: every chain method a handler calls is the
\* step that takes bc.mu, the body of the method with the lock held, and the
\* deferred unlock at its return
\* ------------------------------------------------------------------------

\* The modes in which the chain method task t may call next takes the lock:
\* GetBestHeight (handlePeer, the version handler twice), GetBlocks and the
\* GetBestHeight of the block handler take RLock; AddBlock and AddToMempool
\* take Lock.
CallsAt(t) ==
    LET pc == net.tasks[t].pc
    IN  CASE pc \in {"greet", "compare", "request"} -> {"RLock"}
          [] pc = "addblock" -> {"Lock"}
          [] pc = "reading"  -> {"RLock", "Lock"}
          [] pc = "idle"     -> {"Lock"}
          [] OTHER           -> {}

\* The chain grows to this height while the lock is followed call by call.
MaxLockedHeight == 1

\* At most this many handlers run side by side.
MaxBusy == 2

\* The tasks that are inside a handler: past its first step and not yet back
\* at the read loop, the accept loop or the wait for a request.
InHandler == {t \in Tasks : net.tasks[t].pc \notin {"none", "reading", "idle"}
                        \/ net.tasks[t].lock # "none"}

\* Whether one more handler may start: at most MaxBusy run side by side.
MayStart(t) == t \in InHandler \/ Cardinality(InHandler) < MaxBusy

\* Whether task t holds the chain lock in the given mode.
Holds(t, mode) == net.tasks[t].lock = mode

\* A task calls a chain method and takes the lock.
TakeLock ==
    \E t \in Tasks : \E mode \in CallsAt(t) : MayStart(t) /\ TakesLock(t, mode)

\* A chain method returns.
Unlock == \E t \in Tasks : Unlocks(t)

\* handlePeer up to its version message: n.Peers is written under n.mu, and
\* GetBestHeight runs under the read lock.
LocksConnect == Cardinality(InHandler) < MaxBusy /\ Connect

LocksGreet == \E p \in PeerIds : Holds(p, "RLock") /\ Greets(p)

\* The version handler: the verack is written before any chain method is
\* called; each GetBestHeight runs under the read lock.
LocksVersion == MayStart(Asker) /\ Holds(Asker, "none") /\ HandleVersion

LocksCompare == \E p \in PeerIds : Holds(p, "RLock") /\ ComparesHeight(p)

LocksRequest == \E p \in PeerIds : Holds(p, "RLock") /\ RequestsBlocks(p)

\* GetBlocks of the getblocks handler runs under the read lock.
LocksGetBlocks == Holds(Asker, "RLock") /\ HandleGetBlocks

\* The block handler: GetBestHeight under the read lock, AddBlock under the
\* write lock.
LocksBlock ==
    /\ store.bestHeight < MaxLockedHeight
    /\ \E sender \in Readers, b \in NetBlocks :
          Holds(sender, "RLock") /\ handleBlock(sender, b)

LocksAddBlock ==
    \E p \in PeerIds, commitOk \in BOOLEAN : Holds(p, "Lock") /\ AddsBlock(p, commitOk)

\* AddToMempool of the tx handler runs under the write lock.
LocksTx ==
    /\ Len(Mempool) < MaxMempool
    /\ \E sender \in Readers, tx \in NetTxPool :
          Holds(sender, "Lock") /\ handleTx(sender, tx)

\* AddBlock of submitblock runs under the write lock.
LocksSubmitBlock ==
    /\ store.bestHeight < MaxLockedHeight
    /\ Holds(SubmitWorker, "Lock")
    /\ NetSubmitBlock

\* AddToMempool of a wallet handler runs under the write lock; a request the
\* handler refuses calls no chain method.
LocksWalletTx ==
    /\ Len(Mempool) < MaxMempool
    /\ \E req \in NetRequests :
          /\ MayStart(WalletWorker)
          /\ Holds(WalletWorker, IF WalletRefusal(req) = "" THEN "Lock" ELSE "none")
          /\ handleWallet(WalletWorker, req)

\* Every handler that writes to a peer, with the tasks of two connections
\* and the workers side by side.
NextLocks ==
    \/ TakeLock
    \/ Unlock
    \/ LocksConnect
    \/ LocksGreet
    \/ LocksVersion
    \/ LocksCompare
    \/ LocksRequest
    \/ LocksGetBlocks
    \/ LocksBlock
    \/ LocksAddBlock
    \/ LocksTx
    \/ LocksSubmitBlock
    \/ LocksWalletTx
    \/ TaskBroadcasts
    \/ TaskSends
    \/ TaskReplies
    \/ Restart

SpecLocks == Init /\ [][NextLocks]_vars
\* ------------------------------------------------------------------------
\* Peer.Send write by write (node.go 42-54) and the tasks that call it
\* ------------------------------------------------------------------------

\* A Send that does not wait for the Peer record's mutex.
PeerLockAlways(holder) == TRUE

\* p.mu.Lock() returns when no task holds the mutex.
PeerLockFree(holder) == holder = ""

\* Peer.Send, p.mu.Lock().
SendLock(t) ==
    /\ net.tasks[t].pc = "send"
    /\ LET to == net.tasks[t].queue[1].to
       IN  /\ Len(net.conn[to].wire) < 2 * MaxWire
           /\ PeerLockFree(net.conn[to].holder)
           /\ net' = [net EXCEPT !.conn[to].holder = t, !.tasks[t].pc = "locked",
                                 !.sent = NoSends, !.reply = NoReply, !.msg = <<>>]
    /\ lastErr' = ""
    /\ ChainSame

\* One part of the line of task t's current message, as it goes to the
\* connection.
Written(t, part) ==
    [from |-> t, type |-> net.tasks[t].queue[1].msg.type,
     n |-> Len(net.tasks[t].queue), part |-> part]

\* Peer.Send, writer.WriteString: a line longer than the writer's buffer goes
\* to the connection now, up to what the buffer keeps.
SendWrite(t) ==
    /\ net.tasks[t].pc = "locked"
    /\ LET to == net.tasks[t].queue[1].to
       IN  net' = [net EXCEPT !.conn[to].wire = Append(@, Written(t, "head")),
                               !.tasks[t].pc = "written"]
    /\ lastErr' = ""
    /\ ChainSame

\* Peer.Send, writer.Flush and the deferred p.mu.Unlock(): the rest of the
\* line and its newline go to the connection, the mutex is released if this
\* task holds it, and the task goes on to its next Send or, after the last,
\* releases n.mu.RLock and goes on in its handler.
SendFlush(t) ==
    /\ net.tasks[t].pc = "written"
    /\ LET task == net.tasks[t]
           to == task.queue[1].to
           rest == Tail(task.queue)
       IN  net' = [Stepped(t, FALSE, [NoSends EXCEPT ![to] = << task.queue[1].msg >>],
                           NoReply, <<>>,
                           IF rest = <<>> THEN Goes(t, task, task.then)
                           ELSE [task EXCEPT !.pc = "send", !.queue = rest])
                     EXCEPT !.conn[to].wire = Append(@, Written(t, "tail")),
                            !.conn[to].holder = IF @ = t THEN "" ELSE @]
    /\ lastErr' = ""
    /\ ChainSame

LockPeer == \E t \in Tasks : SendLock(t)

WritePeer == \E t \in Tasks : SendWrite(t)

FlushPeer == \E t \in Tasks : SendFlush(t)

\* The connection of the peer that announces blocks.
Announcer == "p2"

\* That peer sends a block.
AnnounceBlock ==
    /\ store.bestHeight < MaxHeight
    /\ \E b \in NetBlocks : handleBlock(Announcer, b)

\* The handlers that write to peers, with every Send in its three steps.
NextSend ==
    \/ Connect
    \/ Greet
    \/ HandleVersion
    \/ CompareHeights
    \/ RequestBlocks
    \/ AnnounceBlock
    \/ HandleBlockAdd
    \/ NetSubmitBlock
    \/ TaskBroadcasts
    \/ TaskReplies
    \/ LockPeer
    \/ WritePeer
    \/ FlushPeer

SpecSend == Init /\ [][NextSend]_vars

\* ------------------------------------------------------------------------
\* Miners whose clocks differ: the timestamps the retarget reads
\* ------------------------------------------------------------------------

\* What time.Now().Unix() may return when CreateBlockTemplate reads it,
\* relative to the tip's timestamp: a clock behind the tip's, equal to it, and
\* one, three, eight and twenty seconds after it.
RetargetClock == { lastBlock.Header.Timestamp + d : d \in {-3, 0, 1, 3, 8, 20} }

\* The miner asks for a template on a node whose clock shows now.
RetargetFetch ==
    /\ store.bestHeight < MaxRetargetHeight
    /\ \E now \in RetargetClock, order \in StakeOrders :
          MinerFetches(MinerWorker, "A", now, order)

\* The adjust interval of a network whose retarget heights are not the
\* heights at which the epochs of the progressive floor begin.
AdjustIntervals == {3}

\* CreateBlockTemplate on a node that differs from this one in its
\* difficulty_adjust_interval only (validateBlock reads no interval, so the
\* chain is one such a node may hold); the template is kept with the
\* interval.
IntervalTemplate ==
    \E interval \in AdjustIntervals, now \in {Now}, order \in StakeOrders :
        /\ store.bestHeight < MaxRetargetHeight
        /\ mu = "free"
        /\ net' = Handled(NoSends,
                          << [template |-> CreateBlockTemplateFor(
                                               [Config EXCEPT !.DifficultyAdjustInterval = interval],
                                               "A", now, order),
                              interval |-> interval] >>)
        /\ lastErr' = "template"
        /\ ChainSame

NextRetarget ==
    \/ RetargetFetch
    \/ IntervalTemplate
    \/ MinerSubmit
    \/ TaskBroadcasts
    \/ TaskReplies
    \/ Restart

SpecRetarget == Init /\ [][NextRetarget]_vars

\* ------------------------------------------------------------------------
\* The difficulty functions on inputs of their own (difficulty.go)
\* ------------------------------------------------------------------------

\* The floor of a height as a pair.
FloorAt(height) ==
    [height |-> height,
     bits |-> ProgressiveDifficultyFloor(height, Config.DifficultyEpochBlocks,
                                         Config.MinDifficultyBits)]

\* ProgressiveDifficultyFloor is called for a height, as validateBlock and
\* ApplyProgressiveDifficulty call it; the result is kept next to the result
\* of the call before.
ComputeFloor(height) ==
    /\ net' = Handled(NoSends,
                       << [floor |-> FloorAt(height),
                           before |-> IF net.reply # NoReply /\ "floor" \in DOMAIN net.reply[1]
                                      THEN net.reply[1].floor ELSE FloorAt(0)] >>)
    /\ lastErr' = "floor"
    /\ ChainSame

FloorOfHeight == \E height \in 0..MaxFloorHeight : ComputeFloor(height)

NextFloor == FloorOfHeight

\* The node started on an empty data directory with no blockchain.json; the
\* functions of difficulty.go read nothing of the chain.
FreshInit == Init /\ store.bestHeight = 0 /\ failures = 0

SpecFloor == FreshInit /\ [][NextFloor]_vars

\* The bytes the mantissas of the compact values below are made of.
MantissaBytes == {0, 1, 18, 127, 128, 255}

\* The exponents of the compact values below: the three for which
\* BitsToTarget shifts right and one for which it shifts left.
Exponents == 1..4

\* The exponent and the mantissa of a compact value.
ExponentOf(bits) == bits \div 16777216

MantissaOf(bits) == bits % 16777216

\* Whether a compact value is canonical and its mantissa does not overflow:
\* the sign bit (0x00800000) is clear, the mantissa is the shortest that
\* avoids it (at least 0x008000), and for an exponent below 3 the bytes
\* beyond the exponent are zero, the mantissa being left-aligned in 24 bits.
Canonical(bits) ==
    /\ MantissaOf(bits) < 8388608
    /\ MantissaOf(bits) >= 32768
    /\ ExponentOf(bits) < 3 => MantissaOf(bits) % Pow(256, 3 - ExponentOf(bits)) = 0

CanonicalBits ==
    { b \in { e * 16777216 + b1 * 65536 + b2 * 256 + b3 :
                 e \in Exponents, b1 \in MantissaBytes, b2 \in MantissaBytes,
                 b3 \in MantissaBytes } : Canonical(b) }

\* BitsToTarget is applied to a compact value and TargetToBits to the result.
DecodeEncode(bits) ==
    /\ net' = Handled(NoSends,
                       << [bits |-> bits, target |-> BitsToTarget(bits),
                           back |-> TargetToBits(BitsToTarget(bits))] >>)
    /\ lastErr' = "compact"
    /\ ChainSame

RoundTrip == \E bits \in CanonicalBits : DecodeEncode(bits)

NextCompact == RoundTrip

SpecCompact == FreshInit /\ [][NextCompact]_vars

\* ------------------------------------------------------------------------
\* Blocks that carry some of the mempool's transactions
\* ------------------------------------------------------------------------

\* The transaction lists of blocks built by a miner whose template is older
\* than the mempool, or by another node that has seen some of the same
\* transactions: the coinbase of the reward followed by no mempool entry, by
\* one of them, or by all of them.
IncludedTxLists ==
    LET coinbase == NewCoinbaseTransaction("A", CalcBlockReward(TotalMinted,
                                                GetBlockCount(store), Config), Now)
    IN  { <<coinbase>>, <<coinbase>> \o Mempool }
          \cup { <<coinbase, Mempool[i]>> : i \in DOMAIN Mempool }

IncludedBlocks == UNION { Mine(BlockOnTip(txs)) : txs \in IncludedTxLists }

\* Such a block, or the tip again, is submitted.
SubmitIncluded ==
    /\ store.bestHeight < MaxHeight
    /\ \E b \in IncludedBlocks \cup {lastBlock}, commitOk \in BOOLEAN :
          rpcSubmitBlock(SubmitWorker, "", b, commitOk)

NextInclude ==
    \/ SubmitTx
    \/ SubmitIncluded
    \/ TaskBroadcasts
    \/ TaskReplies
    \/ Restart

SpecInclude == Init /\ [][NextInclude]_vars
\* ------------------------------------------------------------------------
\* Connections and the addresses n.Peers is keyed by
\* ------------------------------------------------------------------------

\* The read loop of handlePeer on a line that is not JSON: the line is
\* skipped and the task reads on.
SkipLine(p) ==
    /\ p \in Readers
    /\ ~(net.link.up /\ p = LinkPeer)
    /\ net' = Stepped(p, FALSE, NoSends, NoReply, <<>>, Waiting(p))
    /\ lastErr' = "skipped"
    /\ ChainSame

\* A connection is accepted or dialed: to the address of its peer, or to the
\* address the other connection may have as well.
ConnStart == \E p \in PeerIds : \E a \in {"a1", AddrOf(p)} : handlePeer(p, a)

ConnSkipLine == \E p \in PeerIds : SkipLine(p)

NextConn ==
    \/ ConnStart
    \/ Greet
    \/ ConnSkipLine
    \/ Disconnect
    \/ AnnounceBlock
    \/ HandleBlockAdd
    \/ NetWalletTx
    \/ TaskBroadcasts
    \/ TaskSends
    \/ TaskReplies
    \/ Restart

SpecConn == Init /\ [][NextConn]_vars

\* ------------------------------------------------------------------------
\* Blocks that fail each step of validateBlock
\* ------------------------------------------------------------------------

\* Transaction lists above a limit of the configuration: one transaction
\* more than max_block_txs, and max_block_txs coinbases, whose serialization
\* is above max_block_size.
OversizedTxLists ==
    LET reward == CalcBlockReward(TotalMinted, GetBlockCount(store), Config)
        coinbase == NewCoinbaseTransaction("A", reward, Now)
        transfer == NewTransferTransaction("A", "B", 12, 0, 1)
    IN  { <<coinbase, transfer, transfer, transfer>>,
          <<coinbase, coinbase, coinbase>> }

\* The blocks a submitter offers: every header choice with the coinbase of
\* the reward, and mined blocks on the tip with the oversized lists.
CandidateBlocks ==
    HeaderBlocks \cup UNION { Mine(BlockOnTip(txs)) : txs \in OversizedTxLists }

\* Server.rpcSubmitBlock with one of them.
SubmitCandidate ==
    /\ store.bestHeight < MaxHeight
    /\ \E b \in CandidateBlocks, commitOk \in BOOLEAN : rpcSubmitBlock(SubmitWorker, "", b, commitOk)

NextReject ==
    \/ SubmitTx
    \/ SubmitCandidate
    \/ TaskBroadcasts
    \/ TaskReplies
    \/ Restart

SpecReject == Init /\ [][NextReject]_vars

\* ------------------------------------------------------------------------
\* Blocks whose transactions were exchanged after the nonce search
\* ------------------------------------------------------------------------

\* The mined template as it is, and the same header and hash with the
\* coinbase paying B instead of the miner A.
ReplacedBlocks ==
    LET reward == CalcBlockReward(TotalMinted, GetBlockCount(store), Config)
    IN  TemplateBlocks \cup
        { [b EXCEPT !.Transactions = << NewCoinbaseTransaction("B", reward, Now) >>] :
            b \in TemplateBlocks }

\* Server.rpcSubmitBlock with one of them.
SubmitReplaced ==
    /\ store.bestHeight < MaxHeight
    /\ \E b \in ReplacedBlocks, commitOk \in BOOLEAN : rpcSubmitBlock(SubmitWorker, "", b, commitOk)

NextMerkle ==
    \/ SubmitTx
    \/ SubmitReplaced
    \/ TaskBroadcasts
    \/ TaskReplies
    \/ Restart

SpecMerkle == Init /\ [][NextMerkle]_vars

\* ------------------------------------------------------------------------
\* Two tasks that deliver blocks for the same height
\* ------------------------------------------------------------------------

\* The valid blocks for the next height: the mined templates of both miners.
RaceBlocks ==
    UNION { Mine(CreateBlockTemplate(m, Now, o)) : m \in Addrs, o \in StakeOrders }

\* A peer in its read loop sends one of them.
RacePeerBlock ==
    /\ store.bestHeight < MaxHeight
    /\ \E p \in Readers, b \in RaceBlocks : handleBlock(p, b)

\* A submitter calls submitblock with one of them.
RaceRpcBlock ==
    /\ store.bestHeight < MaxHeight
    /\ \E b \in RaceBlocks, commitOk \in BOOLEAN :
          rpcSubmitBlock(SubmitWorker, "", b, commitOk)

NextRace ==
    \/ Connect
    \/ Greet
    \/ RacePeerBlock
    \/ RaceRpcBlock
    \/ HandleBlockAdd
    \/ TaskBroadcasts
    \/ TaskSends
    \/ TaskReplies
    \/ Restart

SpecRace == Init /\ [][NextRace]_vars

\* ------------------------------------------------------------------------
\* Blocks with stake and unstake transactions of amounts that differ
\* ------------------------------------------------------------------------

\* A stake of 8 and unstakes of 8 and of 12 by the same address.
StakePool ==
    { NewStakeTransaction("stake", "A", 8, 3),
      NewStakeTransaction("unstake", "A", 8, 4),
      NewStakeTransaction("unstake", "A", 12, 5) }

\* The transaction lists of the blocks offered: the coinbase of the reward to
\* either address, followed by nothing, by one transaction of the pool, or
\* by the stake and the larger unstake.
StakeTxLists ==
    LET reward == CalcBlockReward(TotalMinted, GetBlockCount(store), Config)
        coinbases == { <<NewCoinbaseTransaction(m, reward, Now)>> : m \in Addrs }
    IN  coinbases
          \cup { c \o <<t>> : c \in coinbases, t \in StakePool }
          \cup { c \o << NewStakeTransaction("stake", "A", 8, 3),
                         NewStakeTransaction("unstake", "A", 12, 5) >> : c \in coinbases }

StakeBlocks == UNION { Mine(BlockOnTip(txs)) : txs \in StakeTxLists }

\* Server.rpcSubmitBlock with one of them.
SubmitStakeBlock ==
    /\ store.bestHeight < MaxHeight
    /\ \E b \in StakeBlocks, commitOk \in BOOLEAN : rpcSubmitBlock(SubmitWorker, "", b, commitOk)

NextUnstake ==
    \/ SubmitStakeBlock
    \/ TaskBroadcasts
    \/ TaskReplies
    \/ Restart

SpecUnstake == Init /\ [][NextUnstake]_vars

\* ------------------------------------------------------------------------
\* Miners that hold a template while the chain goes on
\* ------------------------------------------------------------------------

\* The miner of either address asks for a template.
FetchTemplate ==
    /\ store.bestHeight < MaxHeight
    /\ \E m \in Addrs, order \in StakeOrders : MinerFetches(WorkerOf(m), m, Now, order)

\* The miner of either address submits the block it found.
SubmitWork == \E m \in Addrs, commitOk \in BOOLEAN : MinerSubmits(WorkerOf(m), m, commitOk)

NextStale ==
    \/ FetchTemplate
    \/ SubmitWork
    \/ TaskBroadcasts
    \/ TaskReplies
    \/ Restart

SpecStale == Init /\ [][NextStale]_vars

\* ------------------------------------------------------------------------
\* Templates under other limits of the transaction count
\* ------------------------------------------------------------------------

\* The limits of the transaction count a network may configure here: from
\* one to that of Config.
TxLimits == 1..Config.MaxBlockTransactions

\* CreateBlockTemplate on a chain that differs from this one in its
\* max_block_transactions only; the template is kept with the limit.
LimitedTemplate ==
    \E limit \in TxLimits, minerAddress \in {"A"}, order \in StakeOrders :
        /\ mu = "free"
        /\ net' = Handled(NoSends,
                          << [template |-> CreateBlockTemplateFor(
                                               [Config EXCEPT !.MaxBlockTransactions = limit],
                                               minerAddress, Now, order),
                              limit |-> limit] >>)
        /\ lastErr' = "template"
        /\ ChainSame

NextLimit ==
    \/ TemplateSubmit
    \/ LimitedTemplate
    \/ MempoolMinerFetch
    \/ MempoolMinerSubmit
    \/ TaskBroadcasts
    \/ TaskReplies
    \/ RestartAll

SpecLimit == Init /\ [][NextLimit]_vars

\* ------------------------------------------------------------------------
\* A peer whose chain is ahead: version, getblocks and the blocks it sends
\* ------------------------------------------------------------------------

\* The peer is at most this many blocks ahead.
MaxAhead == 2

\* The peer's miner commits at most this many blocks while the connection
\* is followed.
MaxPeerMined == 1

\* The buffer of the scanner handlePeer reads lines with, in the unit of
\* SerializedSize; as in the default configuration, max_block_size is above it.
ScanBuffer == 8

\* The length of the line that carries message m.
LineSize(m) == IF m.type = "block" THEN SerializedSize(m.payload) ELSE 1

\* The transaction lists of the peer's blocks: a coinbase, or two of them,
\* which is within max_block_size and above the scanner's buffer.
PeerTxLists(prev) ==
    LET ts == prev.Header.Timestamp + 1
    IN  { << NewCoinbaseTransaction("A", 4, ts) >>,
          << NewCoinbaseTransaction("B", 4, ts), NewCoinbaseTransaction("A", 4, ts) >> }

\* The sequences of k blocks a peer mines one after the other on its chain
\* (genesis first).
RECURSIVE PeerChains(_, _)
PeerChains(chain, k) ==
    IF k = 0 THEN { <<>> }
    ELSE UNION { { <<b>> \o rest : rest \in PeerChains(Append(chain, b), k - 1) } :
                 b \in UNION { Mine(PeerTemplate(chain, txs)) :
                                  txs \in PeerTxLists(chain[Len(chain)]) } }

\* The committed chain of store s, genesis first.
ChainOf(s) == [i \in 1..(s.bestHeight + 1) |-> s.blocks[i - 1]]

\* What Blockchain.GetBlocks reads in the peer's store: the chain the local
\* node has up to base, and the peer's blocks above it.
PeerStore ==
    [ bestHeight |-> net.link.base + Len(net.link.chain),
      blocks |-> [h \in 0..(net.link.base + Len(net.link.chain)) |->
                     IF h > net.link.base THEN net.link.chain[h - net.link.base]
                     ELSE store.blocks[h]] ]

\* The tip of the peer's chain.
PeerTip == PeerStore.blocks[PeerStore.bestHeight]

\* Node.handlePeer on a peer whose chain extends the local chain by 1 ..
\* MaxAhead blocks, up to n.mu.Unlock: the connection is in the peer's
\* n.Peers, and from now on the peer's BroadcastBlock writes to it; the
\* local task has not written its version message yet.  No block is on its
\* way into the local chain from elsewhere.
PeerRegisters ==
    /\ LinkPeer \in DOMAIN net.peers
    /\ ~net.link.up
    /\ \/ net.tasks[LinkPeer].pc = "greet"
       \/ /\ net.tasks[LinkPeer].pc = "send"
          /\ net.tasks[LinkPeer].queue[1].msg.type = "version"
    /\ \A t \in Workers : net.tasks[t].pc = "idle"
    /\ \E k \in 1..MaxAhead : \E chain \in PeerChains(ChainOf(store), k) :
          net' = [net EXCEPT !.link =
                     [NoLink EXCEPT !.up = TRUE, !.pc = "greet",
                                    !.base = ChainBestHeight(store),
                                    !.chain = chain]]
    /\ UNCHANGED <<store, txn, mu, memory, lastErr, failures, ledgerOf, rd>>

\* Node.handleMessage of the task of peer p for message m, the first line of
\* the connection's inbox: the switch over the type of the message; a line
\* of any other type is read and nothing is done.
handleMessage(p, m) ==
    CASE m.type = "version"   -> handleVersion(p, m.payload.Height)
      [] m.type = "verack"    -> handleVerack(p)
      [] m.type = "getblocks" -> handleGetBlocks(p, m.payload.FromHeight)
      [] m.type = "block"     -> handleBlock(p, m.payload)
      [] m.type = "tx"        -> handleTx(p, m.payload)
      [] OTHER                ->
             /\ p \in Readers
             /\ net' = Stepped(p, TRUE, NoSends, NoReply, <<>>, Waiting(p))
             /\ lastErr' = ""
             /\ ChainSame

\* The read loop of handlePeer on the connection to the peer: the next line
\* is scanned and its handler starts; on a line longer than the scanner's
\* buffer, and at the end of the lines of a connection the peer has closed,
\* scanner.Scan returns false and handlePeer ends.
LocalReads ==
    /\ net.link.up
    /\ LinkPeer \in Readers
    /\ IF net.link.inbox = <<>>
       THEN net.link.closed /\ EndHandlePeer(LinkPeer)
       ELSE IF LineSize(Head(net.link.inbox)) > ScanBuffer
            THEN EndHandlePeer(LinkPeer)
            ELSE handleMessage(LinkPeer, Head(net.link.inbox))

\* The task of the connection to the peer takes the next step of the
\* handler it is in; CommitBlock of AddBlock succeeds or fails.
LocalContinues ==
    \/ Greets(LinkPeer)
    \/ Send(LinkPeer)
    \/ ComparesHeight(LinkPeer)
    \/ RequestsBlocks(LinkPeer)
    \/ \E commitOk \in BOOLEAN : AddsBlock(LinkPeer, commitOk)
    \/ \E order \in PeerOrders(Targets(IF LinkPeer \in DOMAIN net.peers
                                        THEN net.peers[LinkPeer].addr ELSE "")) :
          Broadcast(LinkPeer, order)

\* The task of the other connection takes its next step.
OtherContinues ==
    \E p \in PeerIds \ {LinkPeer} : Greets(p) \/ Send(p)

\* The peer's handler goes on at pc with the Send calls of queue to make
\* first; with nothing to send it is at pc at once.
PeerQueued(link, queue, pc) ==
    [link EXCEPT !.pc = IF queue = <<>> THEN pc ELSE "send",
                 !.queue = queue,
                 !.then = IF queue = <<>> THEN "" ELSE pc]

\* Node.handleMessage on the peer for line m of the local node, up to its
\* first Send or its next chain call.  "version": the height is kept, verack
\* is to be written, and the heights are compared after that.  "getblocks":
\* sendBlocks has called GetBlocks on the peer's chain and has one Send per
\* block to make.  "block": a block at or below the peer's best height is
\* dropped, another goes to AddBlock.  "verack" is read and nothing is done;
\* AddToMempool of a "tx" line writes nothing to the connection.
PeerHandles(m) ==
    CASE m.type = "version" ->
             [PeerQueued(net.link, << Message("verack", <<>>) >>, "compare")
                EXCEPT !.job = << [height |-> m.payload.Height] >>]
      [] m.type = "getblocks" ->
             LET blocks == GetBlocks(PeerStore, m.payload.FromHeight)
             IN  PeerQueued(net.link,
                            [i \in DOMAIN blocks |-> Message("block", blocks[i])],
                            "reading")
      [] m.type = "block" ->
             IF m.payload.Header.Height <= PeerStore.bestHeight
             THEN net.link
             ELSE [net.link EXCEPT !.pc = "addblock",
                                   !.job = << [block |-> m.payload] >>]
      [] OTHER -> net.link

\* The peer's read loop: when the handler of the line before has returned,
\* scanner.Scan reads the next line the local node wrote and handleMessage
\* starts; on a line longer than the scanner's buffer Scan returns false
\* and the loop is left.
PeerReads ==
    /\ net.link.up
    /\ ~net.link.closed
    /\ net.link.pc = "reading"
    /\ net.link.outbox # <<>>
    /\ net' = [net EXCEPT !.link =
                  IF LineSize(Head(net.link.outbox)) > ScanBuffer
                  THEN [net.link EXCEPT !.pc = "end"]
                  ELSE [PeerHandles(Head(net.link.outbox))
                          EXCEPT !.outbox = Tail(net.link.outbox)]]
    /\ UNCHANGED <<store, txn, mu, memory, lastErr, failures, ledgerOf, rd>>

\* Node.handlePeer on the peer, the call of GetBestHeight for its version
\* payload: the version message is to be written, and the read loop follows.
PeerGreets ==
    PeerQueued(net.link,
               << Message("version", [Height |-> PeerStore.bestHeight]) >>,
               "reading")

\* The peer's comparison vp.Height > n.Chain.GetBestHeight().
PeerCompares ==
    [net.link EXCEPT !.pc = IF net.link.job[1].height > PeerStore.bestHeight
                            THEN "request" ELSE "reading",
                     !.job = IF net.link.job[1].height > PeerStore.bestHeight
                             THEN @ ELSE <<>>]

\* The peer's second call of GetBestHeight, for the argument of
\* requestBlocks: getblocks is to be written.
PeerRequests ==
    [PeerQueued(net.link,
                << Message("getblocks", [FromHeight |-> PeerStore.bestHeight + 1]) >>,
                "reading")
       EXCEPT !.job = <<>>]

\* The peer's AddBlock of a block the local node sent: the block joins the
\* peer's chain when validateBlock accepts it and the commit works, and is
\* then relayed to the peer's other connections only.
PeerAddsBlock(commitOk) ==
    LET block == net.link.job[1].block
    IN  [net.link EXCEPT
            !.pc = "reading",
            !.job = <<>>,
            !.chain = IF commitOk /\ validateBlock(PeerStore, PeerTip, block, Config) = "ok"
                      THEN Append(@, block) ELSE @]

\* Node.handlePeer on the peer after its read loop: the connection leaves
\* its n.Peers and is closed; what the local node wrote and the peer has
\* not read is lost.
PeerEnds ==
    [net.link EXCEPT !.closed = TRUE, !.pc = "none", !.job = <<>>,
                     !.outbox = <<>>, !.cast = <<>>]

\* The peer's handlePeer takes its next step that is neither a read nor a
\* Send: each call of a chain method is a step of its own, with the steps
\* of the peer's miner in between.  CommitBlock of the peer's AddBlock
\* succeeds or fails.
PeerContinues ==
    /\ net.link.up
    /\ ~net.link.closed
    /\ net.link.pc \in {"greet", "compare", "request", "addblock", "end"}
    /\ \E commitOk \in IF net.link.pc = "addblock" THEN BOOLEAN ELSE {TRUE} :
          net' = [net EXCEPT !.link =
                     CASE net.link.pc = "greet"    -> PeerGreets
                       [] net.link.pc = "compare"  -> PeerCompares
                       [] net.link.pc = "request"  -> PeerRequests
                       [] net.link.pc = "addblock" -> PeerAddsBlock(commitOk)
                       [] net.link.pc = "end"      -> PeerEnds]
    /\ UNCHANGED <<store, txn, mu, memory, lastErr, failures, ledgerOf, rd>>

\* The peer's handler makes its next Peer.Send: one line arrives on the
\* local side of the connection; the Height of a version line is the height
\* the peer has announced.
PeerSends ==
    /\ net.link.up
    /\ ~net.link.closed
    /\ net.link.pc = "send"
    /\ net' = [net EXCEPT
                  !.link.queue = Tail(@),
                  !.link.inbox = Append(@, Head(net.link.queue)),
                  !.link.announced = IF Head(net.link.queue).type = "version"
                                     THEN Head(net.link.queue).payload.Height ELSE @,
                  !.link.pc = IF Len(net.link.queue) = 1 THEN net.link.then ELSE @,
                  !.link.then = IF Len(net.link.queue) = 1 THEN "" ELSE @]
    /\ UNCHANGED <<store, txn, mu, memory, lastErr, failures, ledgerOf, rd>>

\* rpcSubmitBlock on the peer up to the return of AddBlock: a miner of the
\* peer extends the peer's chain by a block; BroadcastBlock is still to be
\* called.
PeerMines ==
    /\ net.link.up
    /\ ~net.link.closed
    /\ net.link.mined < MaxPeerMined
    /\ \E next \in PeerChains(ChainOf(PeerStore), 1) :
          net' = [net EXCEPT !.link.chain = Append(@, next[1]),
                             !.link.mined = @ + 1,
                             !.link.cast = Append(@, next[1])]
    /\ UNCHANGED <<store, txn, mu, memory, lastErr, failures, ledgerOf, rd>>

\* The peer's BroadcastBlock of a block its miner committed: the Peer.Send
\* to the connection, between any two writes of the peer's handler.
PeerBroadcasts ==
    /\ net.link.up
    /\ ~net.link.closed
    /\ net.link.cast # <<>>
    /\ net' = [net EXCEPT !.link.cast = Tail(@),
                          !.link.inbox = Append(@, Message("block", Head(net.link.cast)))]
    /\ UNCHANGED <<store, txn, mu, memory, lastErr, failures, ledgerOf, rd>>

\* The miner works on the local chain while no peer has announced a chain
\* that extends it.
FetchBeforeCatchUp ==
    /\ ~net.link.up
    /\ MinerFetch

SubmitBeforeCatchUp ==
    /\ ~net.link.up
    /\ MinerSubmit

NextCatchUp ==
    \/ FetchBeforeCatchUp
    \/ SubmitBeforeCatchUp
    \/ Connect
    \/ PeerRegisters
    \/ LocalReads
    \/ LocalContinues
    \/ OtherContinues
    \/ PeerReads
    \/ PeerContinues
    \/ PeerSends
    \/ PeerMines
    \/ PeerBroadcasts
    \/ TaskBroadcasts
    \/ TaskSends
    \/ TaskReplies
    \/ Restart

\* Lines written to the connection are delivered and handled: the two read
\* loops go on while there is a line to read, the task of the connection
\* and the peer's handler go on with the handler they are in, and a
\* BroadcastBlock the peer has begun writes its line.
SpecCatchUp ==
    /\ Init
    /\ [][NextCatchUp]_vars
    /\ WF_vars(LocalReads)
    /\ WF_vars(LocalContinues)
    /\ WF_vars(PeerReads)
    /\ WF_vars(PeerContinues)
    /\ WF_vars(PeerSends)
    /\ WF_vars(PeerBroadcasts)

\* ------------------------------------------------------------------------
\* Blocks that come back to the node that relayed them
\* ------------------------------------------------------------------------

\* The blocks peers and submitters deliver: a block mined on a template of
\* either miner, and a copy of any block of the committed chain.
GossipBlocks ==
    UNION { Mine(CreateBlockTemplate(m, Now, o)) : m \in Addrs, o \in StakeOrders }
      \cup { store.blocks[h] : h \in 0..store.bestHeight }

\* A connected peer sends one of them in a block message.
GossipPeerBlock ==
    /\ store.bestHeight < MaxHeight
    /\ \E sender \in Readers, b \in GossipBlocks : handleBlock(sender, b)

\* A submitter sends one of them in a submitblock request.
GossipSubmitBlock ==
    /\ store.bestHeight < MaxHeight
    /\ \E b \in GossipBlocks, commitOk \in BOOLEAN :
          rpcSubmitBlock(SubmitWorker, "", b, commitOk)

NextGossip ==
    \/ Connect
    \/ Greet
    \/ GossipPeerBlock
    \/ HandleBlockAdd
    \/ GossipSubmitBlock
    \/ TaskBroadcasts
    \/ TaskSends
    \/ TaskReplies
    \/ Restart

SpecGossip == Init /\ [][NextGossip]_vars

\* ------------------------------------------------------------------------
\* Properties
\* ------------------------------------------------------------------------

\* The target of the progressive floor at a height.
FloorTarget(height) ==
    BitsToTarget(ProgressiveDifficultyFloor(height, Config.DifficultyEpochBlocks,
                                            Config.MinDifficultyBits))

\* C1: every committed block at a height h >= 1 carries h in its header, and
\* its prev_hash is the hash of the committed block at height h - 1, whatever
\* blocks were offered to AddBlock.
C1_ChainLinked ==
    \A h \in 1..store.bestHeight :
        /\ h \in DOMAIN store.blocks
        /\ store.blocks[h].Header.Height = h
        /\ store.blocks[h].Header.PrevHash = store.blocks[h - 1].Hash
        /\ store.blocks[h].Header.PrevHash = ComputeHash(store.blocks[h - 1].Header)

\* Two blocks are committed on genesis, in a run in which a commit failed.
C1_Witness == store.bestHeight >= 2 /\ failures >= 1 /\ lastErr = "ok"

\* C7 as amended: every block AddBlock committed (heights 1 and up) has a hash
\* at or below the target of its bits, and the target of its bits is at or
\* below the floor's target at its height; the genesis block, which is
\* created with nonce 0 and never validated, satisfies the floor bound only.
C7_CommittedWork ==
    /\ \A h \in 1..store.bestHeight :
          /\ store.blocks[h].Hash <= BitsToTarget(store.blocks[h].Header.Bits)
          /\ BitsToTarget(store.blocks[h].Header.Bits) <= FloorTarget(h)
    /\ BitsToTarget(store.blocks[0].Header.Bits) <= FloorTarget(0)

\* A block of the minimum difficulty is committed at height 1, and AddBlock
\* has just accepted a submitted block at a height whose floor is harder than
\* the minimum difficulty.
C7_Witness ==
    /\ lastErr = "ok"
    /\ net.msg # <<>>
    /\ net.msg[1].height >= Config.DifficultyEpochBlocks
    /\ store.bestHeight = net.msg[1].height
    /\ store.blocks[1].Header.Bits = Config.MinDifficultyBits

\* C7 as the specification states it: every committed block, the genesis block
\* included, has a hash at or below the target of its bits and bits within the
\* floor at its height.
C7_AllBlocksWork ==
    \A h \in 0..store.bestHeight :
        /\ store.blocks[h].Hash <= BitsToTarget(store.blocks[h].Header.Bits)
        /\ BitsToTarget(store.blocks[h].Header.Bits) <= FloorTarget(h)

\* C8: a block AddBlock accepts has bits no easier than the interval-retarget
\* rule gives for its height (the retargeted bits at a multiple of the
\* interval, the tip's bits otherwise), also when its bits are within the
\* progressive floor.
C8_RetargetEnforced ==
    [][lastBlock' # lastBlock =>
          BitsToTarget(lastBlock'.Header.Bits)
              <= BitsToTarget(RetargetBits(store, lastBlock, Config))]_vars

\* C9: the best height never decreases and never skips; a step that commits a
\* block raises it by exactly one to that block's height; a step in which a
\* block is refused or dropped leaves it as it was.
C9_HeightOrder ==
    [][/\ store'.bestHeight \in {store.bestHeight, store.bestHeight + 1}
       /\ lastBlock' # lastBlock =>
             /\ store'.bestHeight = store.bestHeight + 1
             /\ lastBlock'.Header.Height = store'.bestHeight
             /\ store'.blocks[store'.bestHeight] = lastBlock'
       /\ store'.bestHeight = store.bestHeight + 1 => lastBlock' # lastBlock
       /\ lastErr' \notin {"ok", "restarted", "crashed in commit"} => store' = store]_vars

\* A block was committed and a block at a height other than the next has just
\* been refused or dropped.
C9_Witness == store.bestHeight >= 1 /\ lastErr \in {"bad height", "ignored"}

\* The sum of the outputs of a transaction list's coinbase and pos_reward
\* transactions.
RECURSIVE SumOutputs(_)
SumOutputs(outs) ==
    IF outs = <<>> THEN 0 ELSE outs[1].Amount + SumOutputs(Tail(outs))

RECURSIVE MintedOutputs(_)
MintedOutputs(txs) ==
    IF txs = <<>> THEN 0
    ELSE (IF txs[1].Type \in {"coinbase", "pos_reward"} THEN SumOutputs(txs[1].Outputs) ELSE 0)
         + MintedOutputs(Tail(txs))

\* C2: the minted total, in memory and as persisted, never exceeds the
\* maximum supply, whoever built the blocks AddBlock accepted.
C2_SupplyCapped ==
    /\ TotalMinted <= Config.MaxSupply
    /\ store.totalMinted <= Config.MaxSupply

\* C3: the coinbase and pos_reward outputs of a block AddBlock applies sum to
\* at most the reward of its height, computed from the minted total before
\* the block.
C3_RewardBounded ==
    [][lastBlock' # lastBlock =>
          MintedOutputs(lastBlock'.Transactions)
              <= CalcBlockReward(TotalMinted, lastBlock'.Header.Height, Config)]_vars

\* C5: a step of AddBlock in which the store commit fails leaves the in-memory
\* balances, stakes and minted total, the mempool and the tip as they were.
C5_FailedCommitRolledBack ==
    [][failures' = failures + 1 =>
          UNCHANGED <<Balances, Stakes, TotalMinted, Mempool, lastBlock>>]_vars

\* Whether every transfer of a transaction list finds the sender's balance at
\* or above amount + fee when the list is applied in order to the state ap.
RECURSIVE TransfersCovered(_, _, _)
TransfersCovered(ap, txs, height) ==
    IF txs = <<>> THEN TRUE
    ELSE /\ txs[1].Type = "transfer" => ap.bal[txs[1].From] >= txs[1].Amount + txs[1].Fee
         /\ TransfersCovered(ApplyTx(ap, txs[1], height), Tail(txs), height)

\* C6: every transfer of a block AddBlock commits finds the sender's balance
\* at or above amount + fee at the moment it is applied, also when the block
\* comes from the template and carries mempool transfers of one sender that
\* AddToMempool admitted one by one.
C6_TransfersCovered ==
    [][lastBlock' # lastBlock =>
          TransfersCovered([bal |-> Balances, stk |-> Stakes, minted |-> 0,
                            chBal |-> {}, chStk |-> <<>>],
                           lastBlock'.Transactions, lastBlock'.Header.Height)]_vars

\* The bolt transaction of CommitBlock: when CommitBlock fails, or the process
\* ends, after any number of its bucket writes and before the commit, the
\* store is the one from before the call: best_height is one below the
\* block's height, lookup by the block's height and by its hash find what
\* they found before the call, and balances, stakes, tx index and minted
\* total are as before; a node restarted on it loads exactly that state.
CommitAtomic ==
    [][(txn # NoTxn /\ txn[1].step <= CommitSteps /\ txn' = NoTxn) =>
          /\ store' = txn[1].base
          /\ GetBestHeight(store') = txn[1].commit.Height - 1
          /\ GetBlockByHeight(store', txn[1].commit.Height)
                = GetBlockByHeight(txn[1].base, txn[1].commit.Height)
          /\ GetBlockByHash(store', txn[1].commit.Hash)
                = GetBlockByHash(txn[1].base, txn[1].commit.Hash)
          /\ store'.balances = txn[1].base.balances
          /\ store'.stakes = txn[1].base.stakes
          /\ store'.txIndex = txn[1].base.txIndex
          /\ store'.totalMinted = txn[1].base.totalMinted
          /\ lastErr' \in {"restarted", "crashed in commit"} =>
                /\ Balances' = txn[1].base.balances
                /\ Stakes' = txn[1].base.stakes
                /\ TotalMinted' = txn[1].base.totalMinted
                /\ lastBlock' = txn[1].base.blocks[txn[1].base.bestHeight]]_vars

\* C4: when CommitBlock for height h fails, or the process ends, after any
\* number of its bucket writes, the store is the one from before the call,
\* best_height is h - 1, and no block is found at height h or under the
\* block's hash.
C4_NoBlockAtHeight ==
    [][(txn # NoTxn /\ txn[1].step <= CommitSteps /\ txn' = NoTxn) =>
          /\ store' = txn[1].base
          /\ GetBestHeight(store') = txn[1].commit.Height - 1
          /\ GetBlockByHeight(store', txn[1].commit.Height) = <<>>
          /\ GetBlockByHash(store', txn[1].commit.Hash) = <<>>]_vars

\* The same on a store in which no migration of blockchain.json has failed.
NoBlockAtHeightUnlessStale ==
    [][(/\ txn # NoTxn /\ txn[1].step <= CommitSteps /\ txn' = NoTxn
        /\ DOMAIN txn[1].base.blocks = 0..txn[1].base.bestHeight) =>
          /\ GetBlockByHeight(store', txn[1].commit.Height) = <<>>
          /\ GetBlockByHash(store', txn[1].commit.Hash) = <<>>]_vars

\* A block of a failed migration is found above the best height, at the
\* height of a block whose commit has just failed.
StaleBlockFound ==
    /\ lastErr \in {"db commit failed", "crashed in commit", "restarted"}
    /\ GetBlockByHeight(store, store.bestHeight + 1) # <<>>

\* The process ended between the first bucket write and the commit of a block
\* on a chain that already had a block on genesis, and was started again.
CrashedInCommit == lastErr = "crashed in commit" /\ store.bestHeight >= 1

\* The txids of the transactions of the committed blocks up to a height.
CommittedTxIDs(s, height) ==
    UNION { {s.blocks[k].Transactions[i].TxID : i \in DOMAIN s.blocks[k].Transactions} :
            k \in 0..height }

TipReadAfterFailedCommit == rd.pc = "tip" /\ rd.h >= 1 /\ failures >= 1

\* The coinbase and pos_reward outputs of the committed blocks up to a height.
RECURSIVE MintedInBlocks(_, _)
MintedInBlocks(s, height) ==
    IF height < 0 \/ height \notin DOMAIN s.blocks THEN 0
    ELSE MintedOutputs(s.blocks[height].Transactions) + MintedInBlocks(s, height - 1)

\* C11: the minted total in memory equals the persisted minted total, and
\* both equal the sum of the coinbase and pos_reward outputs of the committed
\* blocks, also after an AddBlock whose store commit failed.
C11_MintedConsistent ==
    /\ TotalMinted = store.totalMinted
    /\ store.totalMinted = MintedInBlocks(store, store.bestHeight)

\* C12: after every step of AddBlock that applies a stake transaction of an
\* address, the address's stake is at most its balance, so that the available
\* amount balance - staked that the wallet reports is not negative.
C12_StakeWithinBalance ==
    [][\A a \in Addrs :
          GetStake(Stakes', a) > GetStake(Stakes, a) =>
              /\ GetStake(Stakes', a) <= Balances'[a]
              /\ Balances'[a] - GetStake(Stakes', a) >= 0]_vars

\* The admission predicate of a transaction's kind on the current ledger.
Admissible(tx) ==
    CASE tx.Type = "transfer" -> Balances[tx.From] >= tx.Amount + tx.Fee
      [] tx.Type = "stake" ->
            /\ Balances[tx.From] - GetStake(Stakes, tx.From) >= tx.Amount
            /\ tx.Amount >= Config.MinStakeAmount
            /\ GetStake(Stakes, tx.From) + tx.Amount >= Config.POSMinThreshold
      [] OTHER -> TRUE

\* C13: a step of AddToMempool admits the transaction exactly when the
\* predicate of its kind holds; an admitted transaction is appended at the end
\* of the mempool, a rejected one returns an error and leaves the mempool as
\* it was.
C13_AdmissionExact ==
    [][\A tx \in {WalletTx(req) : req \in MempoolRequests} \cup PeerTxPool :
          AddToMempool(tx) =>
              IF Admissible(tx)
              THEN lastErr' = "ok" /\ Mempool' = Append(Mempool, tx)
              ELSE lastErr' # "ok" /\ Mempool' = Mempool]_vars

\* A stake that is above the minimum and covered by the balance was refused
\* for the threshold while the mempool held an admitted transaction.
C13_Witness ==
    /\ lastErr = "total stake below threshold"
    /\ Len(Mempool) >= 1
    /\ Balances["A"] >= 4

\* The stakers at or above the POS threshold, and what the split of a POS
\* reward in proportion to their stakes gives each of them.
EligibleStakers == {a \in DOMAIN Stakes : Stakes[a].Amount >= Config.POSMinThreshold}

ProportionalShare(posReward, a) ==
    (posReward * Stakes[a].Amount) \div SumStakes(Stakes, EligibleStakers)

\* The eligible stakers the split of posReward gives an output (more than one
\* unit of 10^-8).
PaidStakers(posReward) == {a \in EligibleStakers : ProportionalShare(posReward, a) > 1}

\* The reward of the block after the tip.
NextReward == CalcBlockReward(TotalMinted, GetBlockCount(store), Config)

\* The number of reward transactions of the template on the current state.
RewardTxCount ==
    IF PaidStakers(Share(NextReward, Config.POSRewardShare)) # {} THEN 2 ELSE 1

\* C14: the transactions of a template after its reward transactions are the
\* first k mempool entries in admission order, k being the smaller of the
\* mempool's length and max_block_txs less the number of reward transactions,
\* and the step that builds the template leaves the mempool as it was.
C14_TemplateOrder ==
    [][\A t \in {WalletWorker}, minerAddress \in Addrs, order \in StakeOrders :
          rpcGetBlockTemplate(t, minerAddress, Now, order) =>
              LET txs == net'.tasks[t].job[1].reply.template.Transactions
                  n == RewardTxCount
                  room == Config.MaxBlockTransactions - n
                  k == IF Len(Mempool) < room THEN Len(Mempool) ELSE room
              IN  /\ Mempool' = Mempool
                  /\ Len(txs) = n + k
                  /\ \A i \in 1..k : txs[n + i] = Mempool[i]]_vars

\* A template was built with two reward transactions on a mempool of two
\* different entries, so that only the first of them fits.
C14_Witness ==
    /\ TemplateOf(WalletWorker) # <<>>
    /\ Len(Mempool) = 2
    /\ Mempool[1] # Mempool[2]
    /\ Len(TemplateOf(WalletWorker)[1].Transactions) = 3
    /\ TemplateOf(WalletWorker)[1].Transactions[2].Type = "pos_reward"
    /\ TemplateOf(WalletWorker)[1].Transactions[3] = Mempool[1]

\* The example of the split: a reward of 50 with shares 0.6 and 0.4 and one
\* staker A with a stake of 100 gives a coinbase of 30 and the output (A, 20);
\* with no staker there is no output.  Two stakers of 8 and 24 share 8 as 2
\* and 6 in either order of the ledger.
ExampleSplit ==
    LET pow == [num |-> 3, den |-> 5]
        pos == [num |-> 2, den |-> 5]
        one == AddStake(<<>>, "A", 100, 1)
        two == AddStake(AddStake(<<>>, "A", 8, 1), "B", 24, 1)
    IN  /\ Share(50, pow) = 30
        /\ CalcPOSRewards(one, <<"A">>, Share(50, pos), Config.POSMinThreshold)
              = << [Address |-> "A", Amount |-> 20] >>
        /\ CalcPOSRewards(<<>>, <<>>, Share(50, pos), Config.POSMinThreshold) = <<>>
        /\ CalcPOSRewards(two, <<"A", "B">>, 8, Config.POSMinThreshold)
              = << [Address |-> "A", Amount |-> 2], [Address |-> "B", Amount |-> 6] >>
        /\ CalcPOSRewards(two, <<"B", "A">>, 8, Config.POSMinThreshold)
              = << [Address |-> "B", Amount |-> 6], [Address |-> "A", Amount |-> 2] >>

\* C15: when an eligible staker receives an output, a template starts with
\* the coinbase of the miner for the POW share of the reward, followed by one
\* pos_reward transaction whose outputs are the split of the POS share in
\* proportion to the eligible stakes; otherwise its only reward transaction is
\* the coinbase of the miner for the whole reward.
C15_RewardSplit ==
    [][/\ ExampleSplit
       /\ \A t \in {WalletWorker}, minerAddress \in Addrs, order \in StakeOrders :
            rpcGetBlockTemplate(t, minerAddress, Now, order) =>
                LET txs == net'.tasks[t].job[1].reply.template.Transactions
                    powReward == Share(NextReward, Config.POWRewardShare)
                    posReward == Share(NextReward, Config.POSRewardShare)
                    paid == PaidStakers(posReward)
                    minting == {i \in DOMAIN txs : txs[i].Type \in {"coinbase", "pos_reward"}}
                IN  IF paid # {}
                    THEN /\ minting = {1, 2}
                         /\ txs[1] = NewCoinbaseTransaction(minerAddress, powReward, Now)
                         /\ txs[2].Type = "pos_reward"
                         /\ txs[2].Amount = posReward
                         /\ Len(txs[2].Outputs) = Cardinality(paid)
                         /\ {txs[2].Outputs[i] : i \in DOMAIN txs[2].Outputs}
                               = {[Address |-> a, Amount |-> ProportionalShare(posReward, a)] :
                                     a \in paid}
                    ELSE /\ minting = {1}
                         /\ txs[1] = NewCoinbaseTransaction(minerAddress, NextReward, Now)]_vars

\* A template was built that pays a staker: its coinbase is below the whole
\* reward and its second transaction is a pos_reward with an output.
C15_Witness ==
    /\ TemplateOf(WalletWorker) # <<>>
    /\ Len(TemplateOf(WalletWorker)[1].Transactions) >= 2
    /\ TemplateOf(WalletWorker)[1].Transactions[2].Type = "pos_reward"
    /\ Len(TemplateOf(WalletWorker)[1].Transactions[2].Outputs) >= 1
    /\ TemplateOf(WalletWorker)[1].Transactions[1].Amount < NextReward

\* The reward of a height as a formula: nothing once the supply is minted;
\* otherwise the initial reward divided by two to the number of halvings,
\* nothing if that is below one unit of 10^-8, and at most what is left of the
\* supply.
RewardFormula(totalMinted, height, cfg) ==
    IF totalMinted >= cfg.MaxSupply THEN 0
    ELSE LET base == cfg.InitialReward \div Pow(2, height \div cfg.HalvingInterval)
             floored == IF base < 1 THEN 0 ELSE base
             left == cfg.MaxSupply - totalMinted
         IN  IF floored < left THEN floored ELSE left

\* The configuration of the example, in units of an eighth of a coin: an
\* initial reward of 50 coins, a halving every 100 blocks.
ExampleRewardConfig ==
    [Config EXCEPT !.InitialReward = 400, !.HalvingInterval = 100, !.MaxSupply = 1000000]

\* C16: CalcBlockReward is the reward formula at every height, for the minted
\* total the chain has reached; with an initial reward of 50 and a halving
\* interval of 100 it is 50 below height 100, 25 at height 100 and 12.5 at
\* height 200.
C16_RewardFormula ==
    /\ \A height \in 0..MaxRewardHeight :
          CalcBlockReward(TotalMinted, height, Config)
              = RewardFormula(TotalMinted, height, Config)
    /\ \A height \in {0, 1, 99} : CalcBlockReward(0, height, ExampleRewardConfig) = 400
    /\ \A height \in {100, 199} : CalcBlockReward(0, height, ExampleRewardConfig) = 200
    /\ CalcBlockReward(0, 200, ExampleRewardConfig) = 100
    /\ CalcBlockReward(999900, 0, ExampleRewardConfig) = 100
    /\ CalcBlockReward(1000000, 0, ExampleRewardConfig) = 0

\* A template block was committed whose coinbase is the reward capped at what
\* was left of the supply.
C16_Witness ==
    /\ lastBlock.Header.Height >= 1
    /\ lastErr = "ok"
    /\ lastBlock.Transactions[1].Type = "coinbase"
    /\ lastBlock.Transactions[1].Amount > 0
    /\ lastBlock.Transactions[1].Amount
          < Halve(Config.InitialReward, lastBlock.Header.Height \div Config.HalvingInterval)
    /\ TotalMinted = Config.MaxSupply

\* The peers the last handler wrote exactly the block b to.
BlockSentTo(sent, b) ==
    {q \in PeerIds : Len(sent[q]) = 1 /\ sent[q][1].type = "block" /\ sent[q][1].payload = b}

\* Whether this step ends the node process.
Restarts == lastErr' \in {"restarted", "crashed in commit"}

\* Whether task t, at pc before the step, takes its step.
TaskLeaves(t, pc) ==
    /\ net.tasks[t].pc = pc
    /\ net'.tasks[t] # net.tasks[t]
    /\ ~Restarts

\* Whether the queue of Send calls holds exactly one message msg for each
\* peer of the set ps.
OneEach(queue, ps, msg) ==
    /\ Len(queue) = Cardinality(ps)
    /\ {queue[i].to : i \in DOMAIN queue} = ps
    /\ \A i \in DOMAIN queue : queue[i].msg = msg

\* What a task that enters its loop over n.Peers at this step has before it:
\* the block or transaction it carries, once for each peer of the set ps.
LoopsOver(t, ps, after) ==
    LET job == net.tasks[t].job[1]
    IN  /\ net'.sent = NoSends
        /\ UNCHANGED <<store, memory, failures, ledgerOf>>
        /\ IF ps = {}
           THEN net'.tasks[t].pc = after
           ELSE /\ net'.tasks[t].pc = "send"
                /\ net'.tasks[t].then = after
                /\ OneEach(net'.tasks[t].queue, ps,
                           Message(job.type, job.payload))

\* What a Send of task t writes: the first message of its queue to the
\* connection it is for, and nothing else.
WritesNext(t) ==
    LET task == net.tasks[t]
    IN  /\ net'.sent = [NoSends EXCEPT ![task.queue[1].to] = << task.queue[1].msg >>]
        /\ UNCHANGED <<store, memory, failures, ledgerOf>>
        /\ IF Len(task.queue) = 1
           THEN net'.tasks[t].pc = task.then
           ELSE /\ net'.tasks[t].pc = "send"
                /\ net'.tasks[t].queue = Tail(task.queue)

\* C17: the block handler drops a block at or below the local height with no
\* change of state and nothing sent; a higher block goes to AddBlock, and
\* exactly when AddBlock applied it the task enters the relay loop, in which
\* it writes the block once to every connected peer but the sender; after an
\* error of AddBlock the task reads on and sends nothing.
C17_BlockRelay ==
    [][/\ (net'.msg # <<>> /\ net'.msg[1].type = "block") =>
             LET sender == net'.msg[1].from
                 height == net'.msg[1].height
             IN  /\ UNCHANGED <<store, memory, failures, ledgerOf>>
                 /\ net'.sent = NoSends
                 /\ net'.peers = net.peers
                 /\ IF height <= ChainBestHeight(store)
                    THEN net'.tasks[sender] = Waiting(sender)
                    ELSE /\ net'.tasks[sender].pc = "addblock"
                         /\ net'.tasks[sender].job[1].payload.Header.Height = height
       /\ \A p \in PeerIds :
             TaskLeaves(p, "addblock") =>
                 LET b == net.tasks[p].job[1].payload
                     applied == /\ store' # store
                                /\ lastBlock' = b
                                /\ store'.blocks[b.Header.Height] = b
                 IN  /\ net'.sent = NoSends
                     /\ IF applied
                        THEN /\ net'.tasks[p].pc = "broadcast"
                             /\ net'.tasks[p].job[1].payload = b
                             /\ net'.tasks[p].job[1].type = "block"
                        ELSE /\ net'.tasks[p] = Waiting(p)
                             /\ UNCHANGED <<store, lastBlock>>
       /\ \A p \in PeerIds :
             TaskLeaves(p, "broadcast") => LoopsOver(p, DOMAIN net.peers \ {p}, "reading")
       /\ \A p \in PeerIds :
             TaskLeaves(p, "send") => WritesNext(p)]_vars

\* A peer's block was applied and the relay loop has written it to the other
\* peer and not back to the sender; no worker has sent anything.
RelayedToOtherPeer ==
    /\ net.reply = NoReply
    /\ \A t \in Workers : net.tasks[t].pc = "idle"
    /\ DOMAIN net.peers = PeerIds
    /\ lastBlock.Header.Height >= 1
    /\ \E q \in PeerIds :
          /\ BlockSentTo(net.sent, lastBlock) = {q}
          /\ \A r \in PeerIds \ {q} : net.sent[r] = <<>> /\ net.tasks[r].pc = "reading"

\* The types of the messages the last step wrote to p.
TypesSentTo(sent, p) == {sent[p][i].type : i \in DOMAIN sent[p]}

\* What the steps of the version handler do: the peer's height is recorded
\* and verack is the next message the task writes; then the heights are
\* compared and, exactly when the peer's height is above the best height,
\* getblocks from the best height plus one is written; nothing else writes
\* getblocks.
HandshakeStep ==
    /\ \A p \in PeerIds, height \in PeerHeights :
          handleVersion(p, height) =>
              /\ net'.peers[p].Height = height
              /\ net'.sent = NoSends
              /\ net'.tasks[p].pc = "send"
              /\ net'.tasks[p].queue = << [to |-> p, msg |-> Message("verack", <<>>)] >>
              /\ net'.tasks[p].then = "compare"
    /\ \A p \in PeerIds :
          TaskLeaves(p, "compare") =>
              /\ net'.sent = NoSends
              /\ net'.tasks[p].pc =
                    IF net.peers[p].Height > ChainBestHeight(store)
                    THEN "request" ELSE "reading"
    /\ \A p \in PeerIds :
          TaskLeaves(p, "request") =>
              /\ net'.sent = NoSends
              /\ net'.tasks[p].pc = "send"
              /\ net'.tasks[p].then = "reading"
              /\ net'.tasks[p].queue =
                    << [to |-> p,
                        msg |-> Message("getblocks",
                                        [FromHeight |-> ChainBestHeight(store) + 1])] >>
    /\ \A p \in PeerIds :
          TaskLeaves(p, "send") => WritesNext(p)
    /\ \A p \in PeerIds :
          "getblocks" \in TypesSentTo(net'.sent, p) =>
              /\ net.tasks[p].pc = "send"
              /\ net.tasks[p].queue[1].msg.type = "getblocks"

\* C18: the first message written to a connection, accepted or dialed, is the
\* version message; the handler of a peer's version records the peer's
\* height, writes verack and then, exactly when the peer's height is above
\* the local height, getblocks from the local height plus one, and no
\* getblocks otherwise.
C18_Handshake ==
    [][/\ \A p \in PeerIds : net'.first[p] \in {"", "version"}
       /\ HandshakeStep]_vars

\* The version handler alone, whatever was written first to the connection.
HandshakeReplies == [][HandshakeStep]_vars

\* What the steps of submitblock do when failed is the set of errors of
\* AddBlock that count: the handler goes on to BroadcastBlock with the reply
\* {accepted: true, hash, height} exactly when AddBlock applied the block,
\* and otherwise to the reply of the error with the chain state as it was;
\* BroadcastBlock writes the block once to every connected peer, and the
\* reply is written after it.
SubmitBlockSteps(errors) ==
    /\ (net'.msg # <<>> /\ net'.msg[1].type = "submitblock") =>
          LET t == net'.msg[1].from
              height == net'.msg[1].height
              applied == /\ store' # store
                         /\ lastBlock' # lastBlock
                         /\ lastBlock'.Header.Height = height
                         /\ store'.blocks[height] = lastBlock'
          IN  /\ net'.sent = NoSends
              /\ net'.reply = NoReply
              /\ IF applied
                 THEN /\ net'.tasks[t].pc = "broadcast"
                      /\ net'.tasks[t].job[1].type = "block"
                      /\ net'.tasks[t].job[1].payload = lastBlock'
                      /\ net'.tasks[t].job[1].reply =
                            [accepted |-> TRUE, hash |-> lastBlock'.Hash, height |-> height]
                 ELSE /\ net'.tasks[t].pc = "reply"
                      /\ DOMAIN net'.tasks[t].job[1].reply = {"error"}
                      /\ lastErr' \in errors =>
                            UNCHANGED <<store, Balances, Stakes, TotalMinted,
                                        Mempool, lastBlock>>
    /\ \A t \in Workers :
          TaskLeaves(t, "broadcast") => LoopsOver(t, DOMAIN net.peers, "reply")
    /\ \A t \in Workers :
          TaskLeaves(t, "send") => WritesNext(t)
    /\ \A t \in Workers :
          TaskLeaves(t, "reply") =>
              /\ net'.reply = << net.tasks[t].job[1].reply >>
              /\ net'.sent = NoSends
              /\ net'.tasks[t] = Waiting(t)
              /\ UNCHANGED <<store, memory, failures, ledgerOf>>

\* The errors of validateBlock, and those of AddBlock.
ValidationErrors ==
    {"bad height", "bad prev hash", "bad hash", "insufficient proof of work",
     "too many transactions", "block too large", "difficulty below progressive floor"}

AddBlockErrors == ValidationErrors \cup {"db commit failed"}

\* C19: submitblock applies the block through AddBlock; exactly when it
\* succeeds the block is written to every connected peer and the reply is
\* {accepted: true, hash, height}; when AddBlock fails the reply carries the
\* error, nothing is written to a peer and the chain state, in the store and
\* in memory, is as it was.
C19_SubmitBlock == [][SubmitBlockSteps(AddBlockErrors)]_vars

\* The same for the errors of validateBlock.
SubmitBlockReplies == [][SubmitBlockSteps(ValidationErrors)]_vars

\* The messages in the queues of the tasks.
\* C20: a task that is about to write to a peer (version, verack, getblocks,
\* the blocks of sendBlocks, a relayed or broadcast block, a broadcast
\* transaction), that is inside BroadcastBlock, BroadcastTx or the relay
\* loop, or that answers its client, holds the chain lock in no mode, and
\* every message written to a peer was written by a task that held it in no
\* mode.
C20_NoLockDuringSend ==
    /\ \A t \in Tasks :
          net.tasks[t].pc \in {"send", "broadcast", "reply"} => net.tasks[t].lock = "none"
    /\ \A p \in PeerIds : \A i \in DOMAIN net.sent[p] : net.sent[p][i].held = "none"

\* A block that was applied under the write lock has been written to a peer
\* in this step, with both peers connected, while another task holds the
\* chain lock.
C20_Witness ==
    /\ DOMAIN net.peers = PeerIds
    /\ BlockSentTo(net.sent, lastBlock) # {}
    /\ store.bestHeight >= 1
    /\ \E u \in Tasks : net.tasks[u].lock # "none"

\* Whether the bytes written to a connection are whole lines one after the
\* other: every message's first part is followed at once by its own rest.
WholeLines(wire) ==
    \A i \in DOMAIN wire :
        IF i % 2 = 1
        THEN /\ wire[i].part = "head"
             /\ i < Len(wire) => wire[i + 1] = [wire[i] EXCEPT !.part = "tail"]
        ELSE wire[i].part = "tail"

\* C21: whatever tasks write to a peer at the same time (its own task, the
\* relay loops of other peers' tasks, BroadcastBlock and BroadcastTx of an RPC
\* worker, sendBlocks), each message reaches the peer's connection as one
\* contiguous line, and at most one task is inside Send for the peer.
C21_WritesSerialized ==
    \A p \in PeerIds :
        /\ WholeLines(net.conn[p].wire)
        /\ Cardinality({t \in Tasks : /\ net.tasks[t].pc \in {"locked", "written"}
                                      /\ net.tasks[t].queue[1].to = p}) <= 1

\* A connection carries the whole message of one task and the first part of
\* another task's, which holds the mutex, while a further task waits in Send
\* for it.
C21_Witness ==
    \E p \in PeerIds :
        /\ Len(net.conn[p].wire) >= 3
        /\ \E i, j \in DOMAIN net.conn[p].wire :
              net.conn[p].wire[i].from # net.conn[p].wire[j].from
        /\ net.conn[p].holder # ""
        /\ \E t \in Tasks :
              /\ net.tasks[t].pc = "send"
              /\ net.tasks[t].queue[1].to = p
              /\ net.conn[p].holder # t

\* The bits a retarget gives when the window time is actual: the tip's target
\* times actual over expected, actual clamped to a quarter and four times
\* expected, the target capped at the target of min_difficulty_bits.
RetargetFrom(last, actual, cfg) ==
    LET expectedTime == cfg.DifficultyAdjustInterval * cfg.BlockTimeSeconds
        low == expectedTime \div 4
        high == expectedTime * 4
        clamped == IF actual < low THEN low ELSE IF actual > high THEN high ELSE actual
        newTarget == (BitsToTarget(last.Header.Bits) * clamped) \div expectedTime
        maxTarget == BitsToTarget(cfg.MinDifficultyBits)
    IN  TargetToBits(IF newTarget > maxTarget THEN maxTarget ELSE newTarget)

\* C22: when the block after the tip is at a positive multiple of the adjust
\* interval, the retarget of its template takes as actual time the tip's
\* timestamp less the timestamp of the block adjust_interval below the tip.
C22_RetargetWindow ==
    LET height == GetBlockCount(store)
        interval == Config.DifficultyAdjustInterval
        tip == store.bestHeight
    IN  (height > 0 /\ height % interval = 0) =>
            /\ tip - interval \in DOMAIN store.blocks
            /\ RetargetBits(store, lastBlock, Config)
                  = RetargetFrom(store.blocks[tip],
                                 store.blocks[tip].Header.Timestamp
                                    - store.blocks[tip - interval].Header.Timestamp,
                                 Config)

\* Whether the block after the tip is at a retarget height.
AtRetargetHeight ==
    /\ GetBlockCount(store) > 0
    /\ GetBlockCount(store) % Config.DifficultyAdjustInterval = 0

\* The time between the first and the last block of the window the retarget
\* reads: the last adjust_interval committed blocks.
WindowTime ==
    store.blocks[store.bestHeight].Header.Timestamp
       - store.blocks[store.bestHeight - Config.DifficultyAdjustInterval + 1].Header.Timestamp

\* C23: at a retarget height the window time is clamped to a quarter and four
\* times the expected time before it is used, also when it is zero or
\* negative; the retargeted target is at most four times the tip's target, at
\* least a quarter of it (rounded down, and to the precision of the compact
\* form), and at most the target of min_difficulty_bits.
C23_RetargetBounded ==
    AtRetargetHeight =>
        LET old == BitsToTarget(lastBlock.Header.Bits)
            bits == RetargetBits(store, lastBlock, Config)
            new == BitsToTarget(bits)
        IN  /\ bits = RetargetFrom(lastBlock, WindowTime, Config)
            /\ new <= 4 * old
            /\ new >= BitsToTarget(TargetToBits(old \div 4))
            /\ new <= BitsToTarget(Config.MinDifficultyBits)

\* The second retarget height is reached with a tip whose target is a quarter
\* of the easiest one, after a window whose time was above four times the
\* expected time: the retarget gives four times the tip's target.
C23_Witness ==
    /\ AtRetargetHeight
    /\ store.bestHeight > Config.DifficultyAdjustInterval
    /\ WindowTime > 4 * Config.DifficultyAdjustInterval * Config.BlockTimeSeconds
    /\ 4 * BitsToTarget(lastBlock.Header.Bits) <= BitsToTarget(Config.MinDifficultyBits)
    /\ BitsToTarget(RetargetBits(store, lastBlock, Config))
          = 4 * BitsToTarget(lastBlock.Header.Bits)

\* The floors of two heights computed one after the other are in order: the
\* higher height has the smaller or the same target.
FloorMonotone ==
    (net.reply # NoReply /\ "floor" \in DOMAIN net.reply[1]) =>
        LET a == net.reply[1].before
            b == net.reply[1].floor
        IN  a.height < b.height => BitsToTarget(a.bits) >= BitsToTarget(b.bits)

\* C24: for heights h1 < h2 the target of the floor of h1 is at least the
\* target of the floor of h2, with the epoch count held at 60, and the target
\* the floor's bits decode to is never 0.
C24_FloorMonotone ==
    (net.reply # NoReply /\ "floor" \in DOMAIN net.reply[1]) =>
        /\ FloorMonotone
        /\ net.reply[1].floor.bits
              = ProgressiveDifficultyFloor(
                    IF net.reply[1].floor.height > 60 * Config.DifficultyEpochBlocks
                    THEN 60 * Config.DifficultyEpochBlocks ELSE net.reply[1].floor.height,
                    Config.DifficultyEpochBlocks, Config.MinDifficultyBits)
        /\ BitsToTarget(net.reply[1].floor.bits) > 0

\* The floors of a height of the first epoch and of a height beyond epoch 60
\* have been computed one after the other.
FloorMonotoneWitness ==
    /\ net.reply # NoReply
    /\ "floor" \in DOMAIN net.reply[1]
    /\ net.reply[1].before.height < Config.DifficultyEpochBlocks
    /\ net.reply[1].floor.height > 60 * Config.DifficultyEpochBlocks

\* C25: for every canonical compact value whose mantissa does not overflow,
\* the exponents 1, 2 and 3 included, encoding the decoded target gives the
\* value back.
C25_CompactRoundTrip ==
    (net.reply # NoReply /\ "back" \in DOMAIN net.reply[1]) =>
        net.reply[1].back = net.reply[1].bits

\* The round trip for the values whose target has at least three bytes.
RoundTripFromThreeBytes ==
    (net.reply # NoReply /\ "back" \in DOMAIN net.reply[1]
        /\ net.reply[1].target >= 65536) =>
        net.reply[1].back = net.reply[1].bits

\* A value with exponent 4 and the shortest mantissa has made the round trip.
RoundTripWitness ==
    /\ net.reply # NoReply
    /\ "back" \in DOMAIN net.reply[1]
    /\ net.reply[1].bits = 4 * 16777216 + 32768
    /\ net.reply[1].target = 32768 * 256

\* The clamp on bits of its own: with epochs of three blocks, bits of the
\* easiest target pass at height 2 and are replaced by the floor's bits, of
\* half that target, at height 3; bits of a quarter of it pass at height 3.
ExampleFloorClamp ==
    LET minBits == Config.MinDifficultyBits
        quarter == TargetToBits(BitsToTarget(minBits) \div 4)
    IN  /\ ApplyProgressiveDifficulty(minBits, 2, 3, minBits) = minBits
        /\ ApplyProgressiveDifficulty(minBits, 3, 3, minBits)
              = ProgressiveDifficultyFloor(3, 3, minBits)
        /\ BitsToTarget(ProgressiveDifficultyFloor(3, 3, minBits)) * 2 = BitsToTarget(minBits)
        /\ ApplyProgressiveDifficulty(quarter, 3, 3, minBits) = quarter

\* What the claim says of the header of a template built on the tip by a
\* node with configuration cfg.
WithinFloor(cfg, header) ==
    LET h == header.Height
        floorBits == ProgressiveDifficultyFloor(h, cfg.DifficultyEpochBlocks,
                                                cfg.MinDifficultyBits)
    IN  /\ h = GetBlockCount(store)
        /\ BitsToTarget(header.Bits) <= BitsToTarget(floorBits)
        /\ ~(h > 0 /\ h % cfg.DifficultyAdjustInterval = 0) =>
              header.Bits =
                  IF BitsToTarget(lastBlock.Header.Bits) > BitsToTarget(floorBits)
                  THEN floorBits ELSE lastBlock.Header.Bits

\* The template a step built for a node with another adjust interval, <<>>
\* when the step built none.
IntervalReply(n) ==
    IF n.reply # NoReply /\ "interval" \in DOMAIN n.reply[1] THEN n.reply ELSE <<>>

\* C26: the bits of a template for height h have a target at or below the
\* target of the progressive floor of h; when h is not a positive multiple of
\* the adjust interval they are the tip's bits, or the floor's bits when the
\* target of the tip's bits is above the floor's.
C26_TemplateWithinFloor ==
    [][/\ \A t \in {MinerWorker}, minerAddress \in Addrs, now \in RetargetClock,
             order \in StakeOrders :
            rpcGetBlockTemplate(t, minerAddress, now, order) =>
                WithinFloor(Config, net'.tasks[t].job[1].reply.template.Header)
       /\ IntervalReply(net') # <<>> =>
             WithinFloor([Config EXCEPT
                             !.DifficultyAdjustInterval = IntervalReply(net')[1].interval],
                         IntervalReply(net')[1].template.Header)]_vars

\* A template was built for a height that is no multiple of the adjust
\* interval, on a tip whose bits have a target above the floor's: its bits
\* are the floor's and not the tip's.
C26_Witness ==
    /\ IntervalReply(net) # <<>>
    /\ LET header == IntervalReply(net)[1].template.Header
           floorBits == ProgressiveDifficultyFloor(header.Height,
                            Config.DifficultyEpochBlocks, Config.MinDifficultyBits)
       IN  /\ header.Height = GetBlockCount(store)
           /\ header.Height % IntervalReply(net)[1].interval # 0
           /\ BitsToTarget(lastBlock.Header.Bits) > BitsToTarget(floorBits)
           /\ header.Bits = floorBits
           /\ header.Bits # lastBlock.Header.Bits

\* A template was built at a retarget height where the retarget gave a target
\* above the floor's: its bits are the floor's.
ClampedAtRetarget ==
    /\ TemplateOf(MinerWorker) # <<>>
    /\ AtRetargetHeight
    /\ TemplateOf(MinerWorker)[1].Header.Height = GetBlockCount(store)
    /\ BitsToTarget(RetargetBits(store, lastBlock, Config))
          > FloorTarget(GetBlockCount(store))
    /\ TemplateOf(MinerWorker)[1].Header.Bits
          = ProgressiveDifficultyFloor(GetBlockCount(store), Config.DifficultyEpochBlocks,
                                       Config.MinDifficultyBits)

\* The positions of the mempool whose txid does not occur in a block.
KeptPositions(mempool, block) ==
    {i \in DOMAIN mempool :
        \A j \in DOMAIN block.Transactions : block.Transactions[j].TxID # mempool[i].TxID}

\* C27: a step of AddBlock that commits a block leaves in the mempool exactly
\* the entries whose txid does not occur in the block, in the order they had;
\* a step in which AddBlock returns an error leaves the mempool as it was.
C27_MempoolFiltered ==
    [][(net'.msg # <<>> /\ net'.msg[1].type = "submitblock") =>
          IF lastErr' = "ok"
          THEN LET kept == KeptPositions(Mempool, lastBlock')
               IN  /\ Len(Mempool') = Cardinality(kept)
                   /\ \A k \in DOMAIN Mempool' :
                         \E i \in kept : /\ Cardinality({j \in kept : j < i}) = k - 1
                                         /\ Mempool'[k] = Mempool[i]
          ELSE Mempool' = Mempool]_vars

\* A block that carried the first of two different mempool entries was
\* committed: the second is what the mempool holds.
C27_Witness ==
    /\ lastErr = "ok"
    /\ net.msg # <<>>
    /\ Len(lastBlock.Transactions) = 2
    /\ Len(Mempool) = 1
    /\ Mempool[1].TxID # lastBlock.Transactions[2].TxID
    /\ Mempool[1].Timestamp < lastBlock.Transactions[2].Timestamp

\* The connections whose handlePeer task runs.
Running == {p \in PeerIds : net.tasks[p].pc # "none"}

\* Whether n.Peers holds the Peer record of connection p.
Member(p) == p \in DOMAIN net.peers /\ net.entry[net.peers[p].addr] = p

\* Every record n.Peers holds is that of a connection whose task runs, and
\* so is every connection the last step wrote to and every connection a
\* task is about to write to.
TargetsAreConnected ==
    /\ \A a \in RemoteAddrs : net.entry[a] # "" => net.entry[a] \in Running
    /\ \A p \in PeerIds : net.sent[p] # <<>> => p \in Running
    /\ \A t \in Tasks : \A i \in DOMAIN net.tasks[t].queue :
          net.tasks[t].queue[i].to \in Running

\* C28: a connection's Peer record is in n.Peers exactly while its
\* handlePeer task runs, and messages are written to the connections of
\* running tasks only.
C28_MemberWhileTaskRuns ==
    /\ \A p \in PeerIds : p \in Running <=> Member(p)
    /\ TargetsAreConnected

\* Two connections with the same remote address have running tasks.
SameAddressTwice ==
    /\ Running = PeerIds
    /\ net.peers["p1"].addr = net.peers["p2"].addr

\* A task runs whose address has no entry in n.Peers: the task of another
\* connection with the same address has ended.
RunningUnregistered ==
    \E p \in Running : net.entry[net.peers[p].addr] = ""

\* A block that fails a step of validation against the chain as it is: its
\* height is not the block count, its prev_hash is not the tip's hash, its
\* hash is not that of its header, the hash is above the target of its bits,
\* it has too many transactions, it is too large, or its target is above the
\* floor of its height.
FailsValidation(b) ==
    \/ b.Header.Height # store.bestHeight + 1
    \/ b.Header.PrevHash # lastBlock.Hash
    \/ b.Hash # ComputeHash(b.Header)
    \/ b.Hash > BitsToTarget(b.Header.Bits)
    \/ Len(b.Transactions) > Config.MaxBlockTransactions
    \/ SerializedSize(b) > Config.MaxBlockSize
    \/ BitsToTarget(b.Header.Bits) >
         BitsToTarget(ProgressiveDifficultyFloor(b.Header.Height,
                          Config.DifficultyEpochBlocks, Config.MinDifficultyBits))

\* C29: a step of submitblock with a block that fails a step of validation
\* replies with a validation error and leaves the balances, the stakes, the
\* minted total, the mempool, the tip and the store as they were: a step
\* that does otherwise is the step of no failing block.
C29_RejectedUnchanged ==
    [][(net'.msg # <<>> /\ net'.msg[1].type = "submitblock") =>
          \/ /\ lastErr' \in ValidationErrors
             /\ net'.tasks[SubmitWorker].pc = "reply"
             /\ net'.tasks[SubmitWorker].job[1].reply = [error |-> lastErr']
             /\ UNCHANGED <<store, Balances, Stakes, TotalMinted, Mempool, lastBlock>>
          \/ \A b \in CandidateBlocks, commitOk \in BOOLEAN :
                ~(FailsValidation(b) /\ rpcSubmitBlock(SubmitWorker, "", b, commitOk))]_vars

\* A block that exceeds a limit was refused by a node that has mined, holds a
\* balance and has a transaction waiting.
C29_Witness ==
    /\ lastErr \in {"too many transactions", "block too large"}
    /\ net.msg # <<>>
    /\ store.bestHeight >= 1
    /\ Balances["A"] > 0
    /\ Mempool # <<>>

\* The places of the committed chain: a height and a position in its block.
CommittedPlaces ==
    UNION { { <<h, i>> : i \in DOMAIN store.blocks[h].Transactions } :
              h \in DOMAIN store.blocks }

\* The transaction at a place.
TxAt(pl) == store.blocks[pl[1]].Transactions[pl[2]]

\* C30: no txid occurs at two places of the committed chain, in two blocks
\* or twice in one block.
C30_TxOnce ==
    \A p1, p2 \in CommittedPlaces : p1 # p2 => TxAt(p1).TxID # TxAt(p2).TxID

\* A transfer is committed at two places and the sender has paid it twice out
\* of a balance that covers it once.
TransferAppliedTwice ==
    \E p1, p2 \in CommittedPlaces :
        /\ p1 # p2
        /\ TxAt(p1) = TxAt(p2)
        /\ TxAt(p1).Type = "transfer"
        /\ Balances[TxAt(p1).From] < 0

\* C31: the header of every committed block carries the Merkle root of the
\* block's transaction list.
C31_MerkleRootMatches ==
    \A h \in DOMAIN store.blocks :
        store.blocks[h].Header.MerkleRoot = ComputeMerkleRoot(store.blocks[h].Transactions)

\* A block is committed whose hash meets its bits and is that of its header,
\* and whose coinbase pays an address the header's Merkle root does not cover.
ReplacedCommitted ==
    \E h \in DOMAIN store.blocks :
        LET b == store.blocks[h]
        IN  /\ h >= 1
            /\ b.Hash = ComputeHash(b.Header)
            /\ b.Hash <= BitsToTarget(b.Header.Bits)
            /\ b.Header.MerkleRoot # ComputeMerkleRoot(b.Transactions)
            /\ Balances["B"] > 0

\* The sum of the balances of a set of addresses.
RECURSIVE SumBalances(_, _)
SumBalances(bal, as) ==
    IF as = {} THEN 0
    ELSE LET a == CHOOSE a1 \in as : TRUE
         IN  bal[a] + SumBalances(bal, as \ {a})

\* C32: in what the committed blocks left in the store, the balances and the
\* stakes together are at most the minted total.
C32_ValueConserved ==
    SumBalances(store.balances, Addrs) + GetTotalStaked(store.stakes) <= store.totalMinted

\* An address that has no stake holds more than was ever minted, in memory
\* and in the store, with no failed commit.
UnstakeCreatedValue ==
    /\ failures = 0
    /\ store.stakes = <<>>
    /\ Balances = store.balances
    /\ \E a \in Addrs : store.balances[a] > store.totalMinted

\* What AddBlock does with a valid block for height h whose store commit
\* works or fails: a block for the height after the tip is committed at its
\* height with the blocks below as they were, or fails in the store; a block
\* for a height the chain has reached returns the height error and changes
\* nothing.
OneAtHeight(h) ==
    IF h = store.bestHeight + 1
    THEN \/ /\ lastErr' = "ok"
            /\ store'.bestHeight = store.bestHeight + 1
            /\ store'.blocks[h] = lastBlock'
            /\ lastBlock'.Header.Height = h
            /\ \A k \in 0..store.bestHeight : store'.blocks[k] = store.blocks[k]
         \/ /\ lastErr' = "db commit failed"
            /\ store' = store
    ELSE /\ lastErr' = "bad height"
         /\ UNCHANGED <<store, Balances, Stakes, TotalMinted, Mempool, lastBlock>>

\* Whether the step that committed the block lastBlock' left in memory the
\* ledger of the previous tip with the transactions of that block applied
\* once, and no block applied that is not in the committed chain.
OnlyCommittedApplied ==
    LET ap == ApplyTransactions([bal |-> store.balances, stk |-> store.stakes,
                                 minted |-> 0, chBal |-> {}, chStk |-> <<>>],
                                lastBlock'.Transactions, lastBlock'.Header.Height)
    IN  /\ Balances' = ap.bal
        /\ Stakes' = ap.stk
        /\ TotalMinted' = store.totalMinted + ap.minted
        /\ ledgerOf' \subseteq ChainHashes(store')

\* The AddBlock steps of the deliveries: the step of a peer's task that
\* leaves "addblock" with the block it carries, and the submitblock step.
DeliverySteps(outcome(_)) ==
    /\ \A p \in PeerIds :
          TaskLeaves(p, "addblock") =>
              /\ outcome(net.tasks[p].job[1].payload.Header.Height)
              /\ lastErr' = "ok" => lastBlock' = net.tasks[p].job[1].payload
    /\ (net'.msg # <<>> /\ net'.msg[1].type = "submitblock") =>
          outcome(net'.msg[1].height)

\* C33: of the blocks tasks hold for one height exactly one AddBlock
\* succeeds: the block is committed once at its height, the ledger in memory
\* is then that of the previous tip with the transactions of that one block
\* applied, and the AddBlock of a block whose height the chain has reached
\* returns a height error and changes neither the store nor the balances,
\* stakes, minted total, mempool and tip.
C33_OneBlockPerHeight ==
    [][DeliverySteps(LAMBDA h : /\ OneAtHeight(h)
                                /\ lastErr' = "ok" => OnlyCommittedApplied)]_vars

\* The part of C33 that the lock and the height check give: a block is
\* committed once per height and a block for a height the chain has reached
\* changes nothing.
OneCommitPerHeight == [][DeliverySteps(OneAtHeight)]_vars

\* C33 holds for the deliveries of a node on which no store commit has
\* failed.
OneAppliedUnlessCommitFailed ==
    [][failures = 0 =>
          DeliverySteps(LAMBDA h : /\ OneAtHeight(h)
                                   /\ lastErr' = "ok" => OnlyCommittedApplied)]_vars

\* A peer's block passed the height check of the handler, another task's
\* block for the same height was committed first, and the peer's AddBlock
\* returned the height error.
HeightErrorAfterRace ==
    /\ lastErr = "bad height"
    /\ net.msg = <<>>
    /\ Readers = PeerIds
    /\ store.bestHeight >= 1
    /\ failures = 0
    /\ Balances = store.balances

\* A block was committed after the commit of a block for the same height had
\* failed: the ledger in memory holds the transactions of both.
AppliedTwiceAtHeight ==
    /\ lastErr = "ok"
    /\ failures >= 1
    /\ Balances # store.balances

\* C34: a step of AddBlock with a block of a coinbase and one unstake whose
\* amount is above the sender's stake commits the block, leaves the stake
\* ledger as it was, writes the sender's unchanged stake to the store, and
\* adds the amount (and the coinbase, when it pays the sender) to the
\* sender's balance.
C34_UnstakeAboveStake ==
    [][(net'.msg # <<>> /\ net'.msg[1].type = "submitblock" /\ lastErr' = "ok") =>
          LET txs == lastBlock'.Transactions
              tx == txs[2]
              paid == IF txs[1].Outputs[1].Address = tx.From
                      THEN txs[1].Outputs[1].Amount ELSE 0
          IN  (/\ Len(txs) = 2
               /\ tx.Type = "unstake"
               /\ tx.Amount > GetStake(Stakes, tx.From)) =>
                  /\ store'.blocks[store'.bestHeight] = lastBlock'
                  /\ store'.bestHeight = store.bestHeight + 1
                  /\ Stakes' = Stakes
                  /\ GetStake(store'.stakes, tx.From) = GetStake(Stakes, tx.From)
                  /\ \A a \in Addrs \ {tx.From} :
                        GetStake(store'.stakes, a) = GetStake(store.stakes, a)
                  /\ Balances'[tx.From] = Balances[tx.From] + paid + tx.Amount]_vars

\* An unstake of 12 was applied to an address whose stake is 8: the stake is
\* still 8 and the block is the tip.
C34_Witness ==
    /\ lastErr = "ok"
    /\ net.msg # <<>>
    /\ failures = 0
    /\ Len(lastBlock.Transactions) = 2
    /\ lastBlock.Transactions[2].Type = "unstake"
    /\ lastBlock.Transactions[2].Amount = 12
    /\ GetStake(Stakes, "A") = 8
    /\ GetStake(store.stakes, "A") = 8
    /\ store.blocks[store.bestHeight] = lastBlock

\* C35: a restart of the node between two handlers loads from the store the
\* balances, the stakes, the minted total and the tip the node had in memory.
C35_RestartEquivalence ==
    [][lastErr' = "restarted" =>
          UNCHANGED <<Balances, Stakes, TotalMinted, lastBlock>>]_vars

\* The same for a node none of whose store commits has failed.
RestartEquivalentAfterCommits ==
    [][(lastErr' = "restarted" /\ failures = 0) =>
          UNCHANGED <<Balances, Stakes, TotalMinted, lastBlock>>]_vars

\* A node whose last commit failed holds balances the store does not.
MemoryAheadOfStore ==
    /\ lastErr = "db commit failed"
    /\ Balances # store.balances
    /\ TotalMinted # store.totalMinted
    /\ lastBlock = store.blocks[store.bestHeight]

\* C36: a submitblock step with the block of a template that was built for a
\* height the chain has reached since returns the height error and changes
\* neither the store nor the balances, stakes, minted total, mempool and
\* tip (a step that does otherwise is the step of no such block); and a step
\* that changes the tip does so to a block at the height after the tip whose
\* prev_hash is the tip's hash.
C36_StaleTemplateRejected ==
    [][/\ (net'.msg # <<>> /\ net'.msg[1].type = "submitblock") =>
             \/ /\ lastErr' = "bad height"
                /\ UNCHANGED <<store, Balances, Stakes, TotalMinted, Mempool, lastBlock>>
             \/ \A m \in Addrs, commitOk \in BOOLEAN :
                   \A b \in MinedWork(m) :
                       ~(/\ b.Header.Height <= store.bestHeight
                         /\ rpcSubmitBlock(WorkerOf(m), m, b, commitOk))
       /\ lastBlock' # lastBlock =>
             /\ lastBlock'.Header.Height = store.bestHeight + 1
             /\ lastBlock'.Header.PrevHash = lastBlock.Hash]_vars

\* A miner holds a template for the height of the tip, which the other miner
\* has mined, and its submission has just been refused.
C36_Witness ==
    /\ lastErr = "bad height"
    /\ net.msg # <<>>
    /\ net.msg[1].type = "submitblock"
    /\ net.msg[1].height = store.bestHeight
    /\ store.bestHeight >= 1
    /\ net.tasks[net.msg[1].from].pc = "reply"
    /\ net.tasks[net.msg[1].from].job[1].reply = [error |-> "bad height"]
    /\ net.tasks[net.msg[1].from].job[1].miner
          # store.blocks[store.bestHeight].Transactions[1].Outputs[1].Address

\* The template of the last reply with the limit it was built under.
LimitedReply == net.reply # <<>> /\ "limit" \in DOMAIN net.reply[1]

\* C37: a template has the expected height, the tip's hash as prev_hash, a
\* target within the floor of its height, and at most
\* max_block_transactions transactions, whatever that limit is.
C37_TemplateAcceptable ==
    LimitedReply =>
        LET tmpl == net.reply[1].template
        IN  /\ tmpl.Header.Height = store.bestHeight + 1
            /\ tmpl.Header.PrevHash = lastBlock.Hash
            /\ BitsToTarget(tmpl.Header.Bits) <=
                 BitsToTarget(ProgressiveDifficultyFloor(tmpl.Header.Height,
                                  Config.DifficultyEpochBlocks, Config.MinDifficultyBits))
            /\ Len(tmpl.Transactions) <= net.reply[1].limit

\* The same with the count left out.
TemplateOnTipWithinFloor ==
    LimitedReply =>
        LET tmpl == net.reply[1].template
        IN  /\ tmpl.Header.Height = store.bestHeight + 1
            /\ tmpl.Header.PrevHash = lastBlock.Hash
            /\ BitsToTarget(tmpl.Header.Bits) <=
                 BitsToTarget(ProgressiveDifficultyFloor(tmpl.Header.Height,
                                  Config.DifficultyEpochBlocks, Config.MinDifficultyBits))

\* The count is within every limit of two or more.
TemplateCountFromTwo ==
    (LimitedReply /\ net.reply[1].limit >= 2) =>
        Len(net.reply[1].template.Transactions) <= net.reply[1].limit

\* A template of two reward transactions under a limit of one.
TwoRewardsLimitOne ==
    /\ LimitedReply
    /\ net.reply[1].limit = 1
    /\ Len(net.reply[1].template.Transactions) = 2
    /\ net.reply[1].template.Transactions[2].Type = "pos_reward"

\* C38: the balances and the stakes a reader has read reflect committed
\* blocks only.
C38_ReadsCommitted ==
    /\ rd.pc = "balance" => rd.ledger \subseteq ChainHashes(store)
    /\ rd.pc = "stakes" => rd.stakeLedger \subseteq ChainHashes(store)

\* A reader read the stakes while an AddBlock held the chain lock and its
\* block was not in the store.
StakesReadDuringAddBlock ==
    /\ rd.pc = "stakes"
    /\ mu = "writer"
    /\ ~(rd.stakeLedger \subseteq ChainHashes(store))

\* A reader read the balances under the read lock after a commit had failed,
\* and they reflect the block that was not committed.
BalanceReadAfterFailedCommit ==
    /\ rd.pc = "balance"
    /\ failures >= 1
    /\ ~(rd.ledger \subseteq ChainHashes(store))

\* The balances a reader has read reflect committed blocks only as long as
\* no commit has failed.
BalanceReadsCommitted ==
    (rd.pc = "balance" /\ failures = 0) => rd.ledger \subseteq ChainHashes(store)

\* Whether this step is the peer's read of a getblocks line.
PeerReadsGetBlocks ==
    /\ net.link.up /\ net'.link.up
    /\ ~net.link.closed
    /\ net.link.pc = "reading"
    /\ net.link.outbox # <<>>
    /\ net'.link.outbox = Tail(net.link.outbox)
    /\ Head(net.link.outbox).type = "getblocks"

\* The peer answers getblocks with every block from from_height to its tip,
\* one block message per block, in ascending order of height: sendBlocks
\* has exactly these Send calls to make, and makes them one after the other
\* in this order, each the next line the local node receives or a line
\* after a block the peer broadcast in between.
AnswerAscending ==
    [][ /\ PeerReadsGetBlocks =>
              LET from == Head(net.link.outbox).payload.FromHeight
                  tip  == PeerStore.bestHeight
              IN  /\ Len(net'.link.queue) = IF from > tip THEN 0 ELSE tip - from + 1
                  /\ \A i \in DOMAIN net'.link.queue :
                        net'.link.queue[i] = Message("block", PeerStore.blocks[from + i - 1])
        /\ (net.link.up /\ net'.link.up /\ net.link.queue # <<>>) =>
              \/ net'.link.queue = net.link.queue
              \/ /\ net'.link.queue = Tail(net.link.queue)
                 /\ net'.link.inbox = Append(net.link.inbox, Head(net.link.queue))
      ]_vars

\* The greatest height a peer announces.
MaxAnnounced == MaxHeight + MaxAhead + MaxPeerMined

\* C39: when a peer whose chain extends the local chain has announced a
\* height above the local height, then, the lines of the connection being
\* delivered and the connection staying open, the local height reaches the
\* announced height.
C39_CatchUpCompletes ==
    \A h \in 1..MaxAnnounced :
        (net.link.up /\ net.link.announced = h)
            ~> (~net.link.up \/ net.link.closed \/ ChainBestHeight(store) >= h)

\* The same in every run in which no CommitBlock fails.
CatchUpUnlessCommitFails ==
    \A h \in 1..MaxAnnounced :
        \/ <>(failures # 0)
        \/ (net.link.up /\ net.link.announced = h)
               ~> (~net.link.up \/ net.link.closed \/ ChainBestHeight(store) >= h)

\* The local node has applied both blocks of a peer that was two ahead.
CaughtUpByTwo ==
    /\ net.link.up
    /\ net.link.announced = net.link.base + 2
    /\ ChainBestHeight(store) >= net.link.announced
    /\ net.link.inbox = <<>>
    /\ net.link.outbox = <<>>
    /\ lastErr = "ok"

\* A block the peer broadcast has arrived between two blocks of its answer
\* to getblocks.
BroadcastBetweenAnswers ==
    /\ net.link.up
    /\ Len(net.link.inbox) >= 2
    /\ net.link.queue # <<>>
    /\ net.link.inbox[Len(net.link.inbox)].type = "block"
    /\ net.link.inbox[Len(net.link.inbox)].payload.Header.Height = PeerStore.bestHeight
    /\ net.link.mined >= 1
    /\ net.link.cast = <<>>
    /\ net.link.inbox[Len(net.link.inbox) - 1].type = "block"
    /\ net.link.queue[1].type = "block"
    /\ net.link.queue[1].payload.Header.Height < PeerStore.bestHeight

\* A block the peer's miner committed after the connection was made is the
\* first line the local node receives: BroadcastBlock wrote it before the
\* peer's handlePeer wrote its version message.
BlockBeforeVersion ==
    /\ net.link.up
    /\ net.link.announced = 0
    /\ net.link.inbox # <<>>
    /\ net.link.inbox[1].type = "block"

\* The peer read its best height for the version message before its miner
\* committed a block, and wrote the message after the block's broadcast.
AnnouncedBelowTip ==
    /\ net.link.up
    /\ net.link.announced # 0
    /\ net.link.announced < PeerStore.bestHeight
    /\ Len(net.link.inbox) = 2
    /\ net.link.inbox[1].type = "block"
    /\ net.link.inbox[2].type = "version"

\* The answer to getblocks held a block the peer's miner had committed and
\* BroadcastBlock wrote afterwards: the local node reads a block at or
\* below its height.
AnswerBeforeBroadcast ==
    /\ net.link.up
    /\ net.link.inbox # <<>>
    /\ net.link.inbox[1].type = "block"
    /\ net.link.inbox[1].payload.Header.Height <= ChainBestHeight(store)
    /\ LinkPeer \in Readers

\* The peer compared the heights after its miner had committed a block.
RequestAfterMined ==
    /\ net.link.up
    /\ net.link.mined >= 1
    /\ net.link.pc = "compare"

\* The local node is behind the announced height with nothing left to read
\* or to do, after a commit that failed.
StalledBehind ==
    /\ net.link.up
    /\ ~net.link.closed
    /\ ChainBestHeight(store) < net.link.announced
    /\ net.link.inbox = <<>> /\ net.link.outbox = <<>> /\ net.link.queue = <<>>
    /\ net.link.cast = <<>>
    /\ net.link.pc = "reading"
    /\ net.tasks[LinkPeer].pc = "reading"
    /\ failures >= 1

\* The connection was closed on a block of the peer longer than the
\* scanner's buffer.
ClosedOnLongLine ==
    /\ lastErr = "disconnected"
    /\ ChainBestHeight(store) < MaxHeight + MaxAhead

\* Whether block b is a block of the committed chain of store s.
Committed(s, b) ==
    /\ b.Header.Height <= s.bestHeight
    /\ s.blocks[b.Header.Height] = b

\* C40: the node relays or broadcasts a block at most once.  A task enters
\* BroadcastBlock or the relay loop only in the step in which its block,
\* which was not a block of the committed chain before, became one; the loop
\* writes the block once to each peer and not to the sender; every block
\* message written is a block of the committed chain; and no step lowers the
\* best height or exchanges a committed block.  A copy of a block that was
\* relayed is therefore never relayed again.
C40_RelayedOnce ==
    [][ /\ store'.bestHeight >= store.bestHeight
        /\ \A h \in 0..store.bestHeight : store'.blocks[h] = store.blocks[h]
        /\ \A t \in Tasks :
              (net'.tasks[t].pc = "broadcast" /\ net.tasks[t].pc # "broadcast") =>
                  /\ net'.tasks[t].job[1].type = "block"
                  /\ ~Committed(store, net'.tasks[t].job[1].payload)
                  /\ Committed(store', net'.tasks[t].job[1].payload)
        /\ \A t \in Tasks :
              TaskLeaves(t, "broadcast") =>
                  LoopsOver(t, DOMAIN net.peers \ {t},
                            IF t \in Workers THEN "reply" ELSE "reading")
        /\ \A t \in Tasks :
              (TaskLeaves(t, "send") /\ net.tasks[t].rlock) => WritesNext(t)
        /\ \A p \in PeerIds : \A i \in DOMAIN net'.sent[p] :
              net'.sent[p][i].type = "block" =>
                  Committed(store', net'.sent[p][i].payload)
      ]_vars

\* A peer has sent back the block at the tip while both peers are connected:
\* the copy was dropped and nothing was written.
C40_Witness ==
    /\ lastErr = "ignored"
    /\ net.msg # <<>>
    /\ net.msg[1].type = "block"
    /\ net.msg[1].height = store.bestHeight
    /\ store.bestHeight >= 1
    /\ DOMAIN net.peers = PeerIds
    /\ net.sent = NoSends

\* A block a peer sent was relayed to the other peer.
BlockRelayed ==
    /\ \A t \in Workers : net.tasks[t].pc = "idle"
    /\ \E p \in PeerIds :
          /\ net.sent[p] # <<>>
          /\ net.sent[p][1].type = "block"
          /\ Committed(store, net.sent[p][1].payload)

\* A copy of a committed block in a submitblock request was refused.
CopyResubmitted ==
    /\ net.msg # <<>>
    /\ net.msg[1].type = "submitblock"
    /\ net.msg[1].height <= store.bestHeight
    /\ lastErr = "bad height"
    /\ net.sent = NoSends
    /\ net.tasks[net.msg[1].from].pc = "reply"

====
